---- MODULE Spec2Model ----
(***************************************************************************)
(* Search kernel of the pathfinding engine: the graph adapter, the search  *)
(* nodes and frontiers of search.py, and the algorithms of search.py and   *)
(* graph_search.py, each run as a sequence of loop iterations.             *)
(*                                                                         *)
(* A behaviour is one driver run: a graph and a start/goal pair are fixed, *)
(* UCSGraphSearch.find_solution runs to completion (the reference run),    *)
(* then one further algorithm runs on the same inputs.                     *)
(***************************************************************************)
EXTENDS Integers, Sequences, FiniteSets, TLC

(***************************************************************************)
(* Bounds of the model.                                                    *)
(***************************************************************************)
\* edges of an undirected input graph (parallel edges count one each)
MaxEdges == 3
\* edges of a directed input graph
MaxDirEdges == 2
\* edges of a four-node input graph (see Graphs4)
MaxEdges4 == 4
\* largest value a caller-supplied heuristic returns
MaxH == 1

\* node ids of the input graphs (nodes are added in ascending order)
Nodes == {1, 2, 3}
\* edge lengths ("length" attribute), non-negative
Weights == {0, 1, 3}

\* math.inf
Inf == 1000000

(***************************************************************************)
(* Sequence helpers.                                                       *)
(***************************************************************************)
InSeq(x, s) == \E i \in 1..Len(s) : s[i] = x

Range(s) == {s[i] : i \in 1..Len(s)}

Reverse(s) == [i \in 1..Len(s) |-> s[Len(s) + 1 - i]]

\* all sequences over S of length at most n
SeqsUpTo(S, n) == UNION {[1..k -> S] : k \in 0..n}

(***************************************************************************)
(* The graph: a networkx MultiGraph / MultiDiGraph given by its edges in   *)
(* insertion order.  G is a record [nodes, directed, edges].               *)
(***************************************************************************)
\* the edges a graph on the nodes ns may hold (no self-loops)
EdgeRecs(ns) == {e \in [u : ns, v : ns, w : Weights] : e.u # e.v}

\* does edge e lead from a to b in graph G
Joins(G, e, a, b) ==
    \/ e.u = a /\ e.v = b
    \/ ~G.directed /\ e.u = b /\ e.v = a

\* graph.neighbors(u): the neighbours of u in the order their first edge was added
RECURSIVE NeighborsFrom(_, _, _, _)
NeighborsFrom(G, u, i, acc) ==
    IF i > Len(G.edges) THEN acc
    ELSE LET e == G.edges[i]
             n == IF e.u = u THEN e.v
                  ELSE IF ~G.directed /\ e.v = u THEN e.u ELSE 0
         IN  IF n = 0 \/ InSeq(n, acc)
             THEN NeighborsFrom(G, u, i + 1, acc)
             ELSE NeighborsFrom(G, u, i + 1, Append(acc, n))

Neighbors(G, u) == NeighborsFrom(G, u, 1, <<>>)

\* graph.get_edge_data(a, b): the lengths of the parallel edges a -> b, in key order
EdgeData(G, a, b) ==
    LET sel == SelectSeq(G.edges, LAMBDA e : Joins(G, e, a, b))
    IN  [i \in 1..Len(sel) |-> sel[i].w]

\* graph.to_undirected(): the same nodes and edges, every edge passable both
\* ways (opposite edges that share a key merge into one; has_path does not
\* tell the difference)
to_undirected(G) == [nodes |-> G.nodes, directed |-> FALSE, edges |-> G.edges]

\* the nodes that can be reached from the nodes of seen
RECURSIVE ReachedFrom(_, _)
ReachedFrom(G, seen) ==
    LET more == seen \cup UNION {Range(Neighbors(G, u)) : u \in seen}
    IN  IF more = seen THEN seen ELSE ReachedFrom(G, more)

\* nx.has_path(G, source, target)
has_path(G, source, target) == target \in ReachedFrom(G, {source})

\* a reachability test that follows the direction of the edges
has_directed_path(G, start_node, goal_node) == has_path(G, start_node, goal_node)

\* GraphManager.check_reachability for two nodes of a loaded graph: the
\* value of 'reachable'
check_reachability(G, start_node, goal_node) ==
    IF G.directed
    THEN has_path(to_undirected(G), start_node, goal_node)
    ELSE has_path(G, start_node, goal_node)

\* GraphState.get_applicable_actions: one action per parallel edge, per neighbour
RECURSIVE ActionsFrom(_, _, _, _)
ActionsFrom(G, u, nbrs, acc) ==
    IF nbrs = <<>> THEN acc
    ELSE LET n   == Head(nbrs)
             ed  == EdgeData(G, u, n)
             new == [k \in 1..Len(ed) |-> [target_node |-> n, cost |-> ed[k]]]
         IN  ActionsFrom(G, u, Tail(nbrs), acc \o new)

\* the actions a state would offer were every edge passable both ways
ActionsBothWays(G, u) ==
    ActionsFrom(to_undirected(G), u, Neighbors(to_undirected(G), u), <<>>)

get_applicable_actions(G, u) == ActionsFrom(G, u, Neighbors(G, u), <<>>)

\* G.reverse(copy=True): every edge (u, v) re-added as (v, u), in the order
\* G.edges yields them (by node, then by neighbour, then by key)
RECURSIVE ReverseEdgesFrom(_, _, _)
ReverseEdgesFrom(G, us, acc) ==
    IF us = <<>> THEN acc
    ELSE LET u    == Head(us)
             acts == get_applicable_actions(G, u)
             new  == [k \in 1..Len(acts) |->
                        [u |-> acts[k].target_node, v |-> u, w |-> acts[k].cost]]
         IN  ReverseEdgesFrom(G, Tail(us), acc \o new)

\* list(G.nodes): the nodes 1..n in the order they were added
NodeOrder(G) == [i \in 1..Cardinality(G.nodes) |-> i]

ReverseGraph(G) ==
    IF G.directed
    THEN [nodes |-> G.nodes, directed |-> TRUE,
          edges |-> ReverseEdgesFrom(G, NodeOrder(G), <<>>)]
    ELSE G

(***************************************************************************)
(* Search nodes.  parent is <<>> (None) or <<the parent node>>.            *)
(***************************************************************************)
RootNode(s) ==
    [parent |-> <<>>, action |-> <<>>, state |-> s,
     depth |-> 0, path_cost |-> 0, value |-> 0]

\* a child whose path cost counts one per step instead of the action's cost
ChildNodeUnitCost(p, a) ==
    [parent |-> <<p>>, action |-> <<a>>, state |-> a.target_node,
     depth |-> p.depth + 1, path_cost |-> p.path_cost + 1, value |-> 0]

ChildNode(p, a) ==
    [parent |-> <<p>>, action |-> <<a>>, state |-> a.target_node,
     depth |-> p.depth + 1, path_cost |-> p.path_cost + a.cost, value |-> 0]

\* extract_node_id_path: walk the parent links, then reverse
RECURSIVE PathToRoot(_)
PathToRoot(n) ==
    IF n.parent = <<>> THEN <<n.state>>
    ELSE <<n.state>> \o PathToRoot(n.parent[1])

\* the walk without the final reverse: the path from the goal to the start
PathGoalFirst(n) == PathToRoot(n)

extract_node_id_path(n) == Reverse(PathToRoot(n))

(***************************************************************************)
(* Frontiers.  A best-first frontier is the heapq array of its nodes; a    *)
(* queue frontier is the deque of its nodes.                               *)
(***************************************************************************)
\* Node.__lt__
NodeLt(a, b) == a.value < b.value

\* heapq._siftdown(heap, startpos, pos) with newitem already taken out
RECURSIVE SiftDown(_, _, _, _)
SiftDown(heap, startpos, pos, newitem) ==
    IF pos > startpos
    THEN LET parentpos == pos \div 2
             parent    == heap[parentpos]
         IN  IF NodeLt(newitem, parent)
             THEN SiftDown([heap EXCEPT ![pos] = parent], startpos, parentpos, newitem)
             ELSE [heap EXCEPT ![pos] = newitem]
    ELSE [heap EXCEPT ![pos] = newitem]

\* heapq._siftup(heap, pos) with newitem already taken out
RECURSIVE SiftUp(_, _, _, _)
SiftUp(heap, startpos, pos, newitem) ==
    LET childpos == 2 * pos
        rightpos == childpos + 1
    IN  IF childpos <= Len(heap)
        THEN LET c == IF rightpos <= Len(heap)
                         /\ ~NodeLt(heap[childpos], heap[rightpos])
                      THEN rightpos ELSE childpos
             IN  SiftUp([heap EXCEPT ![pos] = heap[c]], startpos, c, newitem)
        ELSE SiftDown([heap EXCEPT ![pos] = newitem], startpos, pos, newitem)

heappush(heap, item) == SiftDown(Append(heap, item), 1, Len(heap) + 1, item)

\* heapq.heappop: the pair <<returned item, heap left>>
heappop(heap) ==
    LET lastelt == heap[Len(heap)]
        rest    == SubSeq(heap, 1, Len(heap) - 1)
    IN  IF rest # <<>>
        THEN <<rest[1], SiftUp([rest EXCEPT ![1] = lastelt], 1, 1, lastelt)>>
        ELSE <<lastelt, <<>> >>

\* a priority that counts edges instead of summing their costs
UCSFunctionByDepth(node) == node.depth

\* UCSFunction.eval
UCSFunction(node) == node.path_cost

\* a priority that counts the edges of the path instead of their lengths
AStarFunctionByDepth(hf, node) == node.depth + hf[node.state]

\* a priority that orders by the heuristic alone
AStarFunctionGreedy(hf, node) == hf[node.state]

\* AStarFunction.eval with heuristic hf (a function of the node id)
AStarFunction(hf, node) == node.path_cost + hf[node.state]

\* BestFirstFrontier.add_node: the node gets its value, then is pushed
BestFirstAdd(queue, node, val) == heappush(queue, [node EXCEPT !.value = val])

\* a removal that takes the last node of the array, not the least
BestFirstRemoveLast(queue) == <<queue[Len(queue)], SubSeq(queue, 1, Len(queue) - 1)>>

\* BestFirstFrontier.remove_node
BestFirstRemove(queue) == heappop(queue)

\* BestFirstFrontier.top
BestFirstTop(queue) == queue[1]

\* AbstractQueueFrontier.add_node
QueueAdd(queue, node) == Append(queue, node)

\* DepthFirstFrontier.remove_node (pop): <<node, queue left>>
DepthFirstRemove(queue) == <<queue[Len(queue)], SubSeq(queue, 1, Len(queue) - 1)>>

\* a removal from the end new nodes are added to
RemoveNewest(queue) == <<queue[Len(queue)], SubSeq(queue, 1, Len(queue) - 1)>>

\* BreadthFirstFrontier.remove_node (popleft): <<node, queue left>>
BreadthFirstRemove(queue) == <<Head(queue), Tail(queue)>>

\* the node ids of the queued nodes, in queue order
FrontierIds(queue) == [i \in 1..Len(queue) |-> queue[i].state]

\* SimpleGoalTest.is_goal
is_goal(goal_node, s) == s = goal_node

\* dict.get(s, inf) on a reached map
GetG(reached, s) == IF s \in DOMAIN reached THEN reached[s] ELSE Inf

\* dict[s] = g
PutG(reached, s, g) == [x \in DOMAIN reached \cup {s} |-> IF x = s THEN g ELSE reached[x]]

(***************************************************************************)
(* Trace events, as the callback receives them.                            *)
(***************************************************************************)
Event(ev, node, fr, ex, sp) ==
    [event |-> ev, current_node |-> node.state, frontier |-> fr,
     expanded |-> ex, path_cost |-> node.path_cost, depth |-> node.depth,
     solution_path |-> sp]

(***************************************************************************)
(* State.                                                                  *)
(***************************************************************************)
VARIABLES
    graph,          \* the input graph [nodes, directed, edges]
    start,          \* start node id
    goal,           \* goal node id
    callback,       \* whether an observer is passed to find_solution
    alg,            \* the algorithm whose find_solution runs
    heuristic,      \* the heuristic handed to A* (node id -> estimate)
    pc,             \* "idle", "running", "done" (returned), "raised" (exception)
                    \* or "diverged" (a tree search that will never return)
    frontier,       \* the (forward) frontier's queue
    bfrontier,      \* the backward frontier's queue (bidirectional)
    reached,        \* reached_states / best_g / fwd_reached: node id -> g
    breached,       \* bwd_reached
    nodes_of,       \* <<fwd_nodes, bwd_nodes>>: node id -> best node
    C_best,         \* best meeting total (bidirectional)
    meeting,        \* <<>> or <<fwd_meeting_node, bwd_meeting_node>>
    closed,         \* expanded_states (GraphSearch) / reached_states (BFS graph)
    number_of_nodes,        \* _number_of_nodes
    expanded_node_count,    \* _expanded_node_count
    popped,         \* the non-stale nodes removed from the frontier, in order
    trace,          \* the events the callback received, in order
    result,         \* <<>> (None, or not returned yet) or <<the returned node>>
    run,            \* 1 during the reference run, 2 after it
    ucs_result,     \* what the reference run returned (set when run = 2)
    dstar,          \* the _DStarLiteCore of a D*-Lite run, <<>> when there is none
    observed        \* <<>>, or what the run with an observer left behind when
                    \* the same call is made again without one

\* The state of the HTTP layer (api/server.py, graph_manager.py).
VARIABLES
    graph_nodes,    \* list(graph.nodes()) of the graph a lookup is made in
    node_str,       \* the node_str argument of find_node
    lookups,        \* the values find_node returned so far, None as <<>>
    search_sessions,\* session id -> the session dictionary
    workers,        \* session id -> the run_search thread started for it
    instances,      \* the algorithm instances create_instance has made
    request,        \* the body of the last POST /api/search/start
    response,       \* the body and status code of the last HTTP response
    cancel_log,     \* session id -> len(steps) when it was cancelled, or -1
    consumer,       \* a client polling session 1: [offset, received]
    registries      \* algorithm_registry and heuristic_registry: name -> metadata

kernelvars ==
    <<graph, start, goal, callback, alg, heuristic, pc, frontier, bfrontier,
      reached, breached, nodes_of, C_best, meeting, closed, number_of_nodes,
      expanded_node_count, popped, trace, result, run, ucs_result, dstar,
      observed>>

lookupvars == <<graph_nodes, node_str, lookups>>

sessionvars ==
    <<search_sessions, workers, instances, request, response, cancel_log, consumer>>

apivars == <<lookupvars, sessionvars, registries>>

vars == <<kernelvars, apivars>>

inputs == <<graph, start, goal, callback>>

Algorithms ==
    {"ucs", "astar", "bidirectional", "bfs_graph", "bfs_tree", "dfs_graph", "dfs_tree"}

EmptyMap == [x \in {} |-> 0]

\* no heuristic handed over (yet)
NoHeuristic == [n \in {} |-> 0]

\* the input graphs: every edge sequence within the bounds (an undirected edge
\* is written with its smaller end first: add_edge(u, v) and add_edge(v, u)
\* build the same MultiGraph)
Graphs ==
    {[nodes |-> Nodes, directed |-> FALSE, edges |-> es] :
        es \in SeqsUpTo({e \in EdgeRecs(Nodes) : e.u < e.v}, MaxEdges)}
    \cup {[nodes |-> Nodes, directed |-> TRUE, edges |-> es] :
        es \in SeqsUpTo(EdgeRecs(Nodes), MaxDirEdges)}

\* the working state of a find_solution call before it starts
Fresh ==
    /\ frontier = <<>>
    /\ bfrontier = <<>>
    /\ reached = EmptyMap
    /\ breached = EmptyMap
    /\ nodes_of = <<EmptyMap, EmptyMap>>
    /\ C_best = Inf
    /\ meeting = <<>>
    /\ closed = {}
    /\ number_of_nodes = 0
    /\ expanded_node_count = 0
    /\ popped = <<>>
    /\ trace = <<>>
    /\ result = <<>>
    /\ dstar = <<>>

\* A second family of inputs, large enough for A* to reopen a state and for
\* the order of a queue to matter: simple undirected graphs on four nodes with
\* lengths 0 and 1, searched from node 1 to node 4 (the searches never look at
\* a node id except to compare it, so every pair of distinct nodes behaves
\* like this one)
Nodes4 == {1, 2, 3, 4}

Graphs4 ==
    {[nodes |-> Nodes4, directed |-> FALSE, edges |-> es] :
        es \in {q \in SeqsUpTo({e \in EdgeRecs(Nodes4) : e.u < e.v /\ e.w <= 1}, MaxEdges4) :
                    \A i, j \in 1..Len(q) :
                        i # j => <<q[i].u, q[i].v>> # <<q[j].u, q[j].v>>}}

\* initialize_registries(), run when registry.py is imported
initialize_registries ==
    [algorithms |-> [a \in Algorithms |->
                        [name |-> a, requires_heuristic |-> (a = "astar")]],
     heuristics |-> [h \in {"euclidean"} |-> [name |-> h]]]

\* the HTTP layer before any request
NoSessions ==
    /\ registries = initialize_registries
    /\ search_sessions = <<>>
    /\ workers = <<>>
    /\ instances = <<>>
    /\ request = <<>>
    /\ response = <<>>
    /\ cancel_log = <<>>
    /\ consumer = [offset |-> 0, received |-> <<>>]

ApiIdle ==
    /\ graph_nodes = <<>>
    /\ node_str = <<>>
    /\ lookups = <<>>
    /\ NoSessions

Init ==
    /\ \/ graph \in Graphs /\ start \in Nodes /\ goal \in Nodes
       \/ graph \in Graphs4 /\ start = 1 /\ goal = 4
    /\ callback = TRUE
    /\ alg = "ucs"
    /\ heuristic = NoHeuristic
    /\ pc = "idle"
    /\ Fresh
    /\ run = 1
    /\ ucs_result = <<>>
    /\ observed = <<>>
    /\ ApiIdle

\* a callback invoked twice for one event
EmitTwice(tr, ev) == IF callback THEN Append(Append(tr, ev), ev) ELSE tr

\* callback(...) when one was passed: the event is appended to the trace
Emit(tr, ev) == IF callback THEN Append(tr, ev) ELSE tr

(***************************************************************************)
(* UCSGraphSearch.find_solution                                            *)
(***************************************************************************)
\* the for loop over the actions of node; st = [reached, frontier, n]
RECURSIVE UCSExpand(_, _, _)
UCSExpand(node, acts, st) ==
    IF acts = <<>> THEN st
    ELSE LET action    == Head(acts)
             new_state == action.target_node
             new_cost  == node.path_cost + action.cost
         IN  IF new_cost < GetG(st.reached, new_state)
             THEN LET child == ChildNode(node, action)
                  IN  UCSExpand(node, Tail(acts),
                        [reached  |-> PutG(st.reached, new_state, new_cost),
                         frontier |-> BestFirstAdd(st.frontier, child, UCSFunction(child)),
                         n        |-> st.n + 1])
             ELSE UCSExpand(node, Tail(acts), st)

\* a stale test that lets every node through
NeverStale(node, reachedmap) == FALSE

\* a stale test that is only made when an observer was passed
IsStaleIfObserved(node, reachedmap) ==
    callback /\ node.path_cost > GetG(reachedmap, node.state)

\* the stale test of UCS, A* and both sides of the bidirectional search
IsStale(node, reachedmap) == node.path_cost > GetG(reachedmap, node.state)

UCSStart ==
    /\ pc = "idle" /\ alg = "ucs"
    /\ number_of_nodes' = 1
    /\ frontier' = BestFirstAdd(<<>>, RootNode(start), UCSFunction(RootNode(start)))
    /\ reached' = (start :> 0)
    /\ pc' = "running"
    /\ UNCHANGED <<inputs, alg, heuristic, bfrontier, breached, nodes_of, C_best,
                   meeting, closed, expanded_node_count, popped, trace, result,
                   run, ucs_result>>
    /\ UNCHANGED <<dstar, observed, apivars>>

\* one iteration of the while loop
UCSStep ==
    /\ pc = "running" /\ alg = "ucs" /\ frontier # <<>>
    /\ LET rm   == BestFirstRemove(frontier)
           node == rm[1]
           rest == rm[2]
       IN  IF IsStale(node, reached)
           THEN /\ frontier' = rest
                /\ UNCHANGED <<reached, number_of_nodes, popped, trace, result, pc>>
           ELSE IF is_goal(goal, node.state)
           THEN /\ trace' = Emit(trace, Event("goal_found", node, rest,
                                    DOMAIN reached, extract_node_id_path(node)))
                /\ result' = <<node>>
                /\ popped' = Append(popped, node)
                /\ frontier' = rest
                /\ pc' = "done"
                /\ UNCHANGED <<reached, number_of_nodes>>
           ELSE LET st == UCSExpand(node, get_applicable_actions(graph, node.state),
                             [reached |-> reached, frontier |-> rest,
                              n |-> number_of_nodes])
                IN  /\ trace' = Emit(trace, Event("node_expanded", node,
                                        FrontierIds(rest), DOMAIN reached, <<>>))
                    /\ reached' = st.reached
                    /\ frontier' = st.frontier
                    /\ number_of_nodes' = st.n
                    /\ popped' = Append(popped, node)
                    /\ UNCHANGED <<result, pc>>
    /\ UNCHANGED <<inputs, alg, heuristic, bfrontier, breached, nodes_of, C_best,
                   meeting, closed, expanded_node_count, run, ucs_result>>
    /\ UNCHANGED <<dstar, observed, apivars>>

\* the frontier is empty: return None
UCSFail ==
    /\ pc = "running" /\ alg = "ucs" /\ frontier = <<>>
    /\ result' = <<>>
    /\ pc' = "done"
    /\ UNCHANGED <<inputs, alg, heuristic, frontier, bfrontier, reached, breached,
                   nodes_of, C_best, meeting, closed, number_of_nodes,
                   expanded_node_count, popped, trace, run, ucs_result>>
    /\ UNCHANGED <<dstar, observed, apivars>>

(***************************************************************************)
(* Heuristics.                                                             *)
(***************************************************************************)
\* a distance that is zero everywhere
haversineZero(lat1, lon1, lat2, lon2) == 0

\* haversine(lat1, lon1, lat2, lon2) for whole-degree coordinates 0 and 1:
\* R * c with R = 6371000.0, rounded to the metre
\* (one degree of latitude, or of longitude on the equator: 111194.93 m;
\*  one degree of longitude at latitude 1: 111177.99 m; both: 157249.38 m)
haversine(lat1, lon1, lat2, lon2) ==
    IF lat1 = lat2 /\ lon1 = lon2 THEN 0
    ELSE IF lon1 = lon2 THEN 111195
    ELSE IF lat1 = lat2 THEN (IF lat1 = 0 THEN 111195 ELSE 111178)
    ELSE 157249

\* the coordinates of the nodes, as the pairs the scenarios write:
\* A = 1 at (0,0), B = 2 at (0,1), C = 3 at (1,1) and a fourth node at (1,0)
Coordinates == (1 :> <<0, 0>>) @@ (2 :> <<0, 1>>) @@ (3 :> <<1, 1>>) @@ (4 :> <<1, 0>>)

\* the node attribute "y" (latitude) and "x" (longitude); the pair is read
\* (lat, lon) under convention "latlon" and (x, y) under "xy"
NodeLat(conv, n) == IF conv = "latlon" THEN Coordinates[n][1] ELSE Coordinates[n][2]
NodeLon(conv, n) == IF conv = "latlon" THEN Coordinates[n][2] ELSE Coordinates[n][1]

\* build_euclidean_heuristic(graph, goal_node_id): the closure h, tabulated
build_euclidean_heuristic(G, conv, goal_node_id) ==
    [n \in G.nodes |->
        haversine(NodeLat(conv, n), NodeLon(conv, n),
                  NodeLat(conv, goal_node_id), NodeLon(conv, goal_node_id))]

\* the heuristics a caller may hand to A*: any non-negative function within
\* the bound, or the built-in one
Heuristics(G, goal_node_id) ==
    [G.nodes -> 0..MaxH]
    \cup {build_euclidean_heuristic(G, conv, goal_node_id) : conv \in {"latlon", "xy"}}

(***************************************************************************)
(* AStarGraphSearch.find_solution                                          *)
(***************************************************************************)
\* the for loop over the actions of node; st = [reached, frontier]
RECURSIVE AStarExpand(_, _, _, _)
AStarExpand(hf, node, acts, st) ==
    IF acts = <<>> THEN st
    ELSE LET action    == Head(acts)
             new_state == action.target_node
             new_g     == node.path_cost + action.cost
         IN  IF new_g < GetG(st.reached, new_state)
             THEN LET child == ChildNode(node, action)
                  IN  AStarExpand(hf, node, Tail(acts),
                        [reached  |-> PutG(st.reached, new_state, new_g),
                         frontier |-> BestFirstAdd(st.frontier, child,
                                                   AStarFunction(hf, child))])
             ELSE AStarExpand(hf, node, Tail(acts), st)

\* the heuristic the driver hands to find_solution: any of them, and on the
\* call it repeats the one it handed over before
HeuristicsGiven ==
    IF observed = <<>> THEN Heuristics(graph, goal) ELSE {heuristic}

AStarStart ==
    /\ pc = "idle" /\ alg = "astar"
    /\ \E hf \in HeuristicsGiven :
          /\ heuristic' = hf
          /\ frontier' = BestFirstAdd(<<>>, RootNode(start),
                                      AStarFunction(hf, RootNode(start)))
    /\ expanded_node_count' = 0
    /\ reached' = (start :> 0)
    /\ pc' = "running"
    /\ UNCHANGED <<inputs, alg, bfrontier, breached, nodes_of, C_best, meeting,
                   closed, number_of_nodes, popped, trace, result, run, ucs_result>>
    /\ UNCHANGED <<dstar, observed, apivars>>

\* one iteration of the while loop
AStarStep ==
    /\ pc = "running" /\ alg = "astar" /\ frontier # <<>>
    /\ LET rm   == BestFirstRemove(frontier)
           node == rm[1]
           rest == rm[2]
       IN  IF IsStale(node, reached)
           THEN /\ frontier' = rest
                /\ UNCHANGED <<reached, expanded_node_count, popped, trace, result, pc>>
           ELSE IF is_goal(goal, node.state)
           THEN /\ expanded_node_count' = expanded_node_count + 1
                /\ trace' = Emit(trace, Event("goal_found", node, rest,
                                    DOMAIN reached, extract_node_id_path(node)))
                /\ result' = <<node>>
                /\ popped' = Append(popped, node)
                /\ frontier' = rest
                /\ pc' = "done"
                /\ UNCHANGED reached
           ELSE LET st == AStarExpand(heuristic, node,
                             get_applicable_actions(graph, node.state),
                             [reached |-> reached, frontier |-> rest])
                IN  /\ expanded_node_count' = expanded_node_count + 1
                    /\ trace' = Emit(trace, Event("node_expanded", node,
                                        FrontierIds(rest), DOMAIN reached, <<>>))
                    /\ reached' = st.reached
                    /\ frontier' = st.frontier
                    /\ popped' = Append(popped, node)
                    /\ UNCHANGED <<result, pc>>
    /\ UNCHANGED <<inputs, alg, heuristic, bfrontier, breached, nodes_of, C_best,
                   meeting, closed, number_of_nodes, run, ucs_result>>
    /\ UNCHANGED <<dstar, observed, apivars>>

\* the frontier is empty: return None
AStarFail ==
    /\ pc = "running" /\ alg = "astar" /\ frontier = <<>>
    /\ result' = <<>>
    /\ pc' = "done"
    /\ UNCHANGED <<inputs, alg, heuristic, frontier, bfrontier, reached, breached,
                   nodes_of, C_best, meeting, closed, number_of_nodes,
                   expanded_node_count, popped, trace, run, ucs_result>>
    /\ UNCHANGED <<dstar, observed, apivars>>

(***************************************************************************)
(* BidirectionalGraphSearch                                                *)
(***************************************************************************)
\* _reconstruct_bidirectional_path
reconstruct_bidirectional_path(fwd_meeting_node, bwd_meeting_node) ==
    Reverse(PathToRoot(fwd_meeting_node)) \o Tail(PathToRoot(bwd_meeting_node))

\* _build_node_chain: the loop from index i on; [ok, node], ok = FALSE when
\* get_edge_data returns None and ValueError is raised
RECURSIVE BuildChainFrom(_, _, _, _)
BuildChainFrom(G, path_ids, i, current_node) ==
    IF i > Len(path_ids) THEN [ok |-> TRUE, node |-> current_node]
    ELSE LET edge_data == EdgeData(G, path_ids[i - 1], path_ids[i])
         IN  IF edge_data = <<>>
             THEN [ok |-> FALSE, node |-> current_node]
             ELSE BuildChainFrom(G, path_ids, i + 1,
                    ChildNode(current_node,
                              [target_node |-> path_ids[i], cost |-> edge_data[1]]))

build_node_chain(G, path_ids) == BuildChainFrom(G, path_ids, 2, RootNode(path_ids[1]))

\* the for loop over the actions of current on one side.
\* st = [reached, frontier, nodes, C_best, meeting] of that side;
\* oreached, onodes: the other side's reached map and best nodes
RECURSIVE BidirExpand(_, _, _, _, _, _)
BidirExpand(forward, current, acts, st, oreached, onodes) ==
    IF acts = <<>> THEN st
    ELSE LET action      == Head(acts)
             child_state == action.target_node
             new_g       == current.path_cost + action.cost
         IN  IF new_g < GetG(st.reached, child_state)
             THEN LET child_node == [ChildNode(current, action) EXCEPT
                                        !.value = new_g]
                      total_cost == new_g + oreached[child_state]
                      meets      == child_state \in DOMAIN oreached
                                    /\ total_cost < st.C_best
                  IN  BidirExpand(forward, current, Tail(acts),
                        [reached  |-> PutG(st.reached, child_state, new_g),
                         frontier |-> heappush(st.frontier, child_node),
                         nodes    |-> PutG(st.nodes, child_state, child_node),
                         C_best   |-> IF meets THEN total_cost ELSE st.C_best,
                         meeting  |-> IF meets
                                      THEN (IF forward
                                            THEN <<child_node, onodes[child_state]>>
                                            ELSE <<onodes[child_state], child_node>>)
                                      ELSE st.meeting],
                        oreached, onodes)
             ELSE BidirExpand(forward, current, Tail(acts), st, oreached, onodes)

\* top-of-heap g of a frontier, math.inf when it is empty
GMin(queue) == IF queue # <<>> THEN BestFirstTop(queue).path_cost ELSE Inf

MinOf(a, b) == IF a <= b THEN a ELSE b

\* the while condition holds and the loop does not break
BidirContinues ==
    /\ ~(frontier = <<>> /\ bfrontier = <<>>)
    /\ ~(MinOf(GMin(frontier), GMin(bfrontier)) >= C_best)

BidirStart ==
    /\ pc = "idle" /\ alg = "bidirectional"
    /\ expanded_node_count' = 0
    /\ frontier' = BestFirstAdd(<<>>, RootNode(start), UCSFunction(RootNode(start)))
    /\ bfrontier' = BestFirstAdd(<<>>, RootNode(goal), UCSFunction(RootNode(goal)))
    /\ reached' = (start :> 0)
    /\ breached' = (goal :> 0)
    /\ nodes_of' = <<(start :> RootNode(start)), (goal :> RootNode(goal))>>
    /\ C_best' = Inf
    /\ meeting' = <<>>
    /\ pc' = "running"
    /\ UNCHANGED <<inputs, alg, heuristic, closed, number_of_nodes, popped, trace,
                   result, run, ucs_result>>
    /\ UNCHANGED <<dstar, observed, apivars>>

\* one iteration of the main loop, expanding forward
BidirForward ==
    /\ pc = "running" /\ alg = "bidirectional" /\ BidirContinues
    /\ GMin(frontier) <= GMin(bfrontier) /\ frontier # <<>>
    /\ LET rm      == BestFirstRemove(frontier)
           current == rm[1]
           rest    == rm[2]
       IN  IF IsStale(current, reached)
           THEN /\ frontier' = rest
                /\ UNCHANGED <<reached, nodes_of, C_best, meeting,
                               expanded_node_count, popped, trace>>
           ELSE LET st == BidirExpand(TRUE, current,
                             get_applicable_actions(graph, current.state),
                             [reached |-> reached, frontier |-> rest,
                              nodes |-> nodes_of[1], C_best |-> C_best,
                              meeting |-> meeting],
                             breached, nodes_of[2])
                IN  /\ expanded_node_count' = expanded_node_count + 1
                    /\ trace' = Emit(trace, Event("node_expanded", current,
                                        FrontierIds(rest), DOMAIN reached, <<>>))
                    /\ popped' = Append(popped, current)
                    /\ reached' = st.reached
                    /\ frontier' = st.frontier
                    /\ nodes_of' = <<st.nodes, nodes_of[2]>>
                    /\ C_best' = st.C_best
                    /\ meeting' = st.meeting
    /\ UNCHANGED <<inputs, alg, heuristic, pc, bfrontier, breached, closed,
                   number_of_nodes, result, run, ucs_result>>
    /\ UNCHANGED <<dstar, observed, apivars>>

\* one iteration of the main loop, expanding backward (on the reversed graph)
BidirBackward ==
    /\ pc = "running" /\ alg = "bidirectional" /\ BidirContinues
    /\ ~(GMin(frontier) <= GMin(bfrontier) /\ frontier # <<>>)
    /\ LET rm      == BestFirstRemove(bfrontier)
           current == rm[1]
           rest    == rm[2]
       IN  IF IsStale(current, breached)
           THEN /\ bfrontier' = rest
                /\ UNCHANGED <<breached, nodes_of, C_best, meeting,
                               expanded_node_count, popped, trace>>
           ELSE LET st == BidirExpand(FALSE, current,
                             get_applicable_actions(ReverseGraph(graph), current.state),
                             [reached |-> breached, frontier |-> rest,
                              nodes |-> nodes_of[2], C_best |-> C_best,
                              meeting |-> meeting],
                             reached, nodes_of[1])
                IN  /\ expanded_node_count' = expanded_node_count + 1
                    /\ trace' = Emit(trace, Event("node_expanded", current,
                                        FrontierIds(rest), DOMAIN breached, <<>>))
                    /\ popped' = Append(popped, current)
                    /\ breached' = st.reached
                    /\ bfrontier' = st.frontier
                    /\ nodes_of' = <<nodes_of[1], st.nodes>>
                    /\ C_best' = st.C_best
                    /\ meeting' = st.meeting
    /\ UNCHANGED <<inputs, alg, heuristic, pc, frontier, reached, closed,
                   number_of_nodes, result, run, ucs_result>>
    /\ UNCHANGED <<dstar, observed, apivars>>

\* after the loop: None, or the rebuilt chain (pc = "raised" on ValueError)
BidirFinish ==
    /\ pc = "running" /\ alg = "bidirectional" /\ ~BidirContinues
    /\ IF C_best = Inf \/ meeting = <<>>
       THEN /\ result' = <<>>
            /\ pc' = "done"
            /\ UNCHANGED trace
       ELSE LET final_path == reconstruct_bidirectional_path(meeting[1], meeting[2])
                chain      == build_node_chain(graph, final_path)
            IN  IF chain.ok
                THEN /\ trace' = Emit(trace, Event("goal_found", chain.node, <<>>,
                                         DOMAIN reached \cup DOMAIN breached,
                                         final_path))
                     /\ result' = <<chain.node>>
                     /\ pc' = "done"
                ELSE /\ result' = <<>>
                     /\ pc' = "raised"
                     /\ UNCHANGED trace
    /\ UNCHANGED <<inputs, alg, heuristic, frontier, bfrontier, reached, breached,
                   nodes_of, C_best, meeting, closed, number_of_nodes,
                   expanded_node_count, popped, run, ucs_result>>
    /\ UNCHANGED <<dstar, observed, apivars>>

(***************************************************************************)
(* TreeSearch and GraphSearch with a DepthFirstFrontier (dfs_tree,         *)
(* dfs_graph), BreadthFirstTreeSearch and BreadthFirstGraphSearch.         *)
(***************************************************************************)
\* A tree search keeps no visited set.  A node it removes that is as deep as
\* the graph has nodes has a state twice on its branch: the branch has walked
\* a cycle, the search did not return on the way, the same steps repeat below
\* it, and find_solution never returns.
TreeDiverges(node) == node.depth >= Cardinality(graph.nodes)

\* TreeSearch: the for loop adding every child; st = [frontier, n]
RECURSIVE TreeExpand(_, _, _)
TreeExpand(node, acts, st) ==
    IF acts = <<>> THEN st
    ELSE TreeExpand(node, Tail(acts),
            [frontier |-> QueueAdd(st.frontier, ChildNode(node, Head(acts))),
             n        |-> st.n + 1])

\* TreeSearch.find_solution and GraphSearch.find_solution up to the loop
DFSStart(a) ==
    /\ pc = "idle" /\ alg = a
    /\ number_of_nodes' = 1
    /\ frontier' = QueueAdd(<<>>, RootNode(start))
    /\ closed' = {}
    /\ pc' = "running"
    /\ UNCHANGED <<inputs, alg, heuristic, bfrontier, reached, breached, nodes_of,
                   C_best, meeting, expanded_node_count, popped, trace, result,
                   run, ucs_result>>
    /\ UNCHANGED <<dstar, observed, apivars>>

\* TreeSearch.find_solution: one iteration of the while loop
DFSTreeStep ==
    /\ pc = "running" /\ alg = "dfs_tree" /\ frontier # <<>>
    /\ LET rm   == DepthFirstRemove(frontier)
           node == rm[1]
           rest == rm[2]
           ev   == Emit(trace, Event("node_expanded", node, FrontierIds(rest), {}, <<>>))
       IN  /\ popped' = Append(popped, node)
           /\ IF is_goal(goal, node.state)
              THEN /\ trace' = Emit(ev, Event("goal_found", node, <<>>, {},
                                        extract_node_id_path(node)))
                   /\ result' = <<node>>
                   /\ frontier' = rest
                   /\ pc' = "done"
                   /\ UNCHANGED number_of_nodes
              ELSE LET st == TreeExpand(node, get_applicable_actions(graph, node.state),
                                [frontier |-> rest, n |-> number_of_nodes])
                   IN  /\ trace' = ev
                       /\ frontier' = st.frontier
                       /\ number_of_nodes' = st.n
                       /\ pc' = IF TreeDiverges(node) THEN "diverged" ELSE pc
                       /\ UNCHANGED result
    /\ UNCHANGED <<inputs, alg, heuristic, bfrontier, reached, breached, nodes_of,
                   C_best, meeting, closed, expanded_node_count, run, ucs_result>>
    /\ UNCHANGED <<dstar, observed, apivars>>

\* GraphSearch: the for loop adding the children not yet expanded
RECURSIVE GraphExpand(_, _, _, _)
GraphExpand(node, acts, expanded_states, st) ==
    IF acts = <<>> THEN st
    ELSE IF Head(acts).target_node \notin expanded_states
    THEN GraphExpand(node, Tail(acts), expanded_states,
            [frontier |-> QueueAdd(st.frontier, ChildNode(node, Head(acts))),
             n        |-> st.n + 1])
    ELSE GraphExpand(node, Tail(acts), expanded_states, st)

\* GraphSearch.find_solution: one iteration of the while loop
DFSGraphStep ==
    /\ pc = "running" /\ alg = "dfs_graph" /\ frontier # <<>>
    /\ LET rm   == DepthFirstRemove(frontier)
           node == rm[1]
           rest == rm[2]
           ev   == Emit(trace, Event("node_expanded", node, FrontierIds(rest),
                                     closed, <<>>))
       IN  IF node.state \in closed
           THEN /\ frontier' = rest
                /\ UNCHANGED <<closed, number_of_nodes, popped, trace, result, pc>>
           ELSE IF is_goal(goal, node.state)
           THEN /\ trace' = Emit(ev, Event("goal_found", node, <<>>, closed,
                                     extract_node_id_path(node)))
                /\ result' = <<node>>
                /\ popped' = Append(popped, node)
                /\ frontier' = rest
                /\ pc' = "done"
                /\ UNCHANGED <<closed, number_of_nodes>>
           ELSE LET expanded_states == closed \cup {node.state}
                    st == GraphExpand(node, get_applicable_actions(graph, node.state),
                             expanded_states,
                             [frontier |-> rest, n |-> number_of_nodes])
                IN  /\ trace' = ev
                    /\ closed' = expanded_states
                    /\ popped' = Append(popped, node)
                    /\ frontier' = st.frontier
                    /\ number_of_nodes' = st.n
                    /\ UNCHANGED <<result, pc>>
    /\ UNCHANGED <<inputs, alg, heuristic, bfrontier, reached, breached, nodes_of,
                   C_best, meeting, expanded_node_count, run, ucs_result>>
    /\ UNCHANGED <<dstar, observed, apivars>>

\* the frontier of a queue search is empty: return None
QueueFail(a) ==
    /\ pc = "running" /\ alg = a /\ frontier = <<>>
    /\ result' = <<>>
    /\ pc' = "done"
    /\ UNCHANGED <<inputs, alg, heuristic, frontier, bfrontier, reached, breached,
                   nodes_of, C_best, meeting, closed, number_of_nodes,
                   expanded_node_count, popped, trace, run, ucs_result>>
    /\ UNCHANGED <<dstar, observed, apivars>>

\* BreadthFirstTreeSearch: the for loop, left at the first goal child.
\* st = [frontier, n, found], found = <<>> or <<the goal child>>
RECURSIVE BFSTreeExpand(_, _, _)
BFSTreeExpand(node, acts, st) ==
    IF acts = <<>> THEN st
    ELSE LET child == ChildNode(node, Head(acts))
         IN  IF is_goal(goal, child.state)
             THEN [st EXCEPT !.found = <<child>>]
             ELSE BFSTreeExpand(node, Tail(acts),
                    [frontier |-> QueueAdd(st.frontier, child),
                     n        |-> st.n + 1,
                     found    |-> <<>>])

\* BreadthFirstGraphSearch: the for loop, left at the first goal child.
\* st = [frontier, n, found, reached_states]
RECURSIVE BFSGraphExpand(_, _, _)
BFSGraphExpand(node, acts, st) ==
    IF acts = <<>> THEN st
    ELSE LET child == ChildNode(node, Head(acts))
         IN  IF is_goal(goal, child.state)
             THEN [st EXCEPT !.found = <<child>>]
             ELSE IF child.state \notin st.reached_states
             THEN BFSGraphExpand(node, Tail(acts),
                    [frontier       |-> QueueAdd(st.frontier, child),
                     n              |-> st.n + 1,
                     found          |-> <<>>,
                     reached_states |-> st.reached_states \cup {child.state}])
             ELSE BFSGraphExpand(node, Tail(acts), st)

\* BreadthFirstTreeSearch.find_solution and BreadthFirstGraphSearch.find_solution
\* up to the loop: the start is goal-tested before anything is queued
BFSStart(a) ==
    /\ pc = "idle" /\ alg = a
    /\ number_of_nodes' = 1
    /\ IF is_goal(goal, start)
       THEN /\ trace' = Emit(trace, Event("goal_found", RootNode(start), <<>>,
                                 IF a = "bfs_graph" THEN {start} ELSE {},
                                 extract_node_id_path(RootNode(start))))
            /\ result' = <<RootNode(start)>>
            /\ pc' = "done"
            /\ UNCHANGED <<frontier, closed>>
       ELSE /\ frontier' = QueueAdd(<<>>, RootNode(start))
            /\ closed' = IF a = "bfs_graph" THEN {start} ELSE {}
            /\ pc' = "running"
            /\ UNCHANGED <<trace, result>>
    /\ UNCHANGED <<inputs, alg, heuristic, bfrontier, reached, breached, nodes_of,
                   C_best, meeting, expanded_node_count, popped, run, ucs_result>>
    /\ UNCHANGED <<dstar, observed, apivars>>

\* BreadthFirstTreeSearch.find_solution: one iteration of the while loop
BFSTreeStep ==
    /\ pc = "running" /\ alg = "bfs_tree" /\ frontier # <<>>
    /\ LET rm   == BreadthFirstRemove(frontier)
           node == rm[1]
           rest == rm[2]
           ev   == Emit(trace, Event("node_expanded", node, FrontierIds(rest), {}, <<>>))
           st   == BFSTreeExpand(node, get_applicable_actions(graph, node.state),
                      [frontier |-> rest, n |-> number_of_nodes, found |-> <<>>])
       IN  /\ popped' = Append(popped, node)
           /\ frontier' = st.frontier
           /\ number_of_nodes' = st.n
           /\ IF st.found # <<>>
              THEN /\ trace' = Emit(ev, Event("goal_found", st.found[1], <<>>, {},
                                        extract_node_id_path(st.found[1])))
                   /\ result' = st.found
                   /\ pc' = "done"
              ELSE /\ trace' = ev
                   /\ pc' = IF TreeDiverges(node) THEN "diverged" ELSE pc
                   /\ UNCHANGED result
    /\ UNCHANGED <<inputs, alg, heuristic, bfrontier, reached, breached, nodes_of,
                   C_best, meeting, closed, expanded_node_count, run, ucs_result>>
    /\ UNCHANGED <<dstar, observed, apivars>>

\* BreadthFirstGraphSearch.find_solution: one iteration of the while loop
BFSGraphStep ==
    /\ pc = "running" /\ alg = "bfs_graph" /\ frontier # <<>>
    /\ LET rm   == BreadthFirstRemove(frontier)
           node == rm[1]
           rest == rm[2]
           ev   == Emit(trace, Event("node_expanded", node, FrontierIds(rest),
                                     closed, <<>>))
           st   == BFSGraphExpand(node, get_applicable_actions(graph, node.state),
                      [frontier |-> rest, n |-> number_of_nodes, found |-> <<>>,
                       reached_states |-> closed])
       IN  /\ popped' = Append(popped, node)
           /\ frontier' = st.frontier
           /\ number_of_nodes' = st.n
           /\ closed' = st.reached_states
           /\ IF st.found # <<>>
              THEN /\ trace' = Emit(ev, Event("goal_found", st.found[1], <<>>,
                                        st.reached_states,
                                        extract_node_id_path(st.found[1])))
                   /\ result' = st.found
                   /\ pc' = "done"
              ELSE /\ trace' = ev
                   /\ UNCHANGED <<result, pc>>
    /\ UNCHANGED <<inputs, alg, heuristic, bfrontier, reached, breached, nodes_of,
                   C_best, meeting, expanded_node_count, run, ucs_result>>
    /\ UNCHANGED <<dstar, observed, apivars>>

(***************************************************************************)
(* DStarLiteSearch.find_solution: D*-Lite run with an edge-cost changer    *)
(* that never changes an edge.  The record dstar holds the _DStarLiteCore: *)
(* g, rhs, key (per vertex), heap and entry_finder (the priority queue U), *)
(* km, start (the agent's vertex), path, path_cost, expansion_count,       *)
(* expanded_nodes and phase ("compute" inside compute_shortest_path,       *)
(* "move" in the loop of main).                                            *)
(***************************************************************************)
\* the ticks of the edge scheduler that report changed edges which a run
\* of D*-Lite is followed through
MaxChanges == 1

\* the factor an edge changer multiplies the costs by
Factors == {2}

\* EdgeCostChanger.__init__ (node None is written 0)
EdgeCostChanger(node, time_to_block, radius, factor) ==
    [node_to_block |-> node, time_to_block |-> time_to_block, radius |-> radius,
     factor |-> factor, t |-> 0, already_changed |-> FALSE]

\* _inflate_edge_costs, the breadth-first loop: the nodes at most radius
\* steps of G.neighbors away from the nodes of visited
RECURSIVE WithinRadius(_, _, _)
WithinRadius(G, visited, radius) ==
    IF radius = 0 THEN visited
    ELSE WithinRadius(G,
            visited \cup UNION {Range(Neighbors(G, n)) : n \in visited \cap G.nodes},
            radius - 1)

\* _inflate_edge_costs: [graph, changed_edges]; G.edges reports an edge of an
\* undirected graph from the end that was added first, which is how the edge
\* records are written
inflate_edge_costs(G, ch) ==
    LET near    == WithinRadius(G, {ch.node_to_block}, ch.radius)
        touched == {i \in 1..Len(G.edges) :
                      G.edges[i].u \in near \/ G.edges[i].v \in near}
    IN  [graph |-> [G EXCEPT !.edges =
                      [i \in 1..Len(G.edges) |->
                         IF i \in touched
                         THEN [G.edges[i] EXCEPT !.w = @ * ch.factor]
                         ELSE G.edges[i]]],
         changed_edges |-> {<<G.edges[i].u, G.edges[i].v>> : i \in touched}]

\* EdgeCostChanger.change_state: [changer, graph, changed_edges]
change_state(G, ch) ==
    LET t == IF ch.t >= Inf THEN Inf ELSE ch.t + 1
    IN  IF t < ch.time_to_block
        THEN [changer |-> [ch EXCEPT !.t = t], graph |-> G, changed_edges |-> {}]
        ELSE [changer |-> [ch EXCEPT !.t = t, !.already_changed = TRUE],
              graph |-> inflate_edge_costs(G, ch).graph,
              changed_edges |-> inflate_edge_costs(G, ch).changed_edges]

\* _DStarLiteCore.callback_throttle_interval
callback_throttle_interval == 10

\* float addition, math.inf absorbing
Plus(a, b) == IF a >= Inf \/ b >= Inf THEN Inf ELSE a + b

\* the elements of a set of node ids in the order a loop over the set
\* yields them (small integers hash to themselves: ascending)
RECURSIVE SetOrder(_)
SetOrder(S) ==
    IF S = {} THEN <<>>
    ELSE LET m == CHOOSE x \in S : \A y \in S : x <= y
         IN  <<m>> \o SetOrder(S \ {m})

\* DStarNode.succ and DStarNode.pred as __init__ fills them
DStarSucc(G, u) == SetOrder(Range(Neighbors(G, u)))

DStarPred(G, u) == SetOrder({v \in G.nodes : InSeq(u, Neighbors(G, v))})

\* _cost: the length of the first edge u -> v, math.inf when there is none
DStarCost(G, u, v) ==
    IF EdgeData(G, u, v) = <<>> THEN Inf ELSE EdgeData(G, u, v)[1]

\* _dstar_h: haversine over the nodes' "y" and "x"
dstar_h(u, v) ==
    haversine(NodeLat("latlon", u), NodeLon("latlon", u),
              NodeLat("latlon", v), NodeLon("latlon", v))

\* calculate_key
calculate_key(d, u) ==
    LET val == MinOf(d.g[u], d.rhs[u])
    IN  <<Plus(Plus(val, dstar_h(u, d.start)), d.km), val>>

\* (k1, k2) < (l1, l2) on tuples
KeyLt(k, l) == k[1] < l[1] \/ (k[1] = l[1] /\ k[2] < l[2])

\* (key, node_id, node) < (key, node_id, node) on heap entries
EntryLt(a, b) == KeyLt(a.key, b.key) \/ (a.key = b.key /\ a.id < b.id)

\* the position of the entry heappop returns: the least one (heapq keeps the
\* least entry at heap[0]; the order of the others in the array is not modelled)
LeastEntry(heap) ==
    CHOOSE i \in 1..Len(heap) : \A j \in 1..Len(heap) : ~EntryLt(heap[j], heap[i])

WithoutEntry(heap, i) == SubSeq(heap, 1, i - 1) \o SubSeq(heap, i + 1, Len(heap))

\* DStarPriorityQueue.insert
UInsert(d, u) ==
    [d EXCEPT !.entry_finder = PutG(@, u, d.key[u]),
              !.heap = Append(@, [key |-> d.key[u], id |-> u])]

\* DStarPriorityQueue.remove
URemove(d, u) ==
    [d EXCEPT !.entry_finder = [x \in DOMAIN @ \ {u} |-> @[x]]]

\* a pop that trusts the heap: the least entry, whatever the side-table says
UPopAnyEntry(d) ==
    IF d.heap = <<>> THEN [node |-> 0, d |-> d]
    ELSE LET i == LeastEntry(d.heap)
         IN  [node |-> d.heap[i].id,
              d |-> [d EXCEPT !.heap = WithoutEntry(@, i),
                              !.entry_finder = [x \in DOMAIN @ \ {d.heap[i].id} |-> @[x]]]]

\* DStarPriorityQueue.pop: [node, d], node = 0 for None
RECURSIVE UPop(_)
UPop(d) ==
    IF d.heap = <<>> THEN [node |-> 0, d |-> d]
    ELSE LET i    == LeastEntry(d.heap)
             e    == d.heap[i]
             left == [d EXCEPT !.heap = WithoutEntry(@, i)]
         IN  IF e.id \in DOMAIN d.entry_finder /\ d.entry_finder[e.id] = e.key
             THEN [node |-> e.id, d |-> URemove(left, e.id)]
             ELSE UPop(left)

\* DStarPriorityQueue.top_key: [key, d], stale entries at the top discarded
RECURSIVE UTopKey(_)
UTopKey(d) ==
    IF d.heap = <<>> THEN [key |-> <<Inf, Inf>>, d |-> d]
    ELSE LET i == LeastEntry(d.heap)
             e == d.heap[i]
         IN  IF e.id \in DOMAIN d.entry_finder /\ d.entry_finder[e.id] = e.key
             THEN [key |-> e.key, d |-> d]
             ELSE UTopKey([d EXCEPT !.heap = WithoutEntry(@, i)])

\* update_vertex: the loop over u.succ
RECURSIVE MinValue(_, _, _, _, _)
MinValue(G, d, u, succs, min_val) ==
    IF succs = <<>> THEN min_val
    ELSE LET value == Plus(DStarCost(G, u, Head(succs)), d.g[Head(succs)])
         IN  MinValue(G, d, u, Tail(succs),
                      IF value < min_val THEN value ELSE min_val)

update_vertex(G, goal_id, d, u) ==
    LET d1 == IF u # goal_id
              THEN [d EXCEPT !.rhs[u] = MinValue(G, d, u, DStarSucc(G, u), Inf)]
              ELSE d
        d2 == IF u \in DOMAIN d1.entry_finder THEN URemove(d1, u) ELSE d1
    IN  IF d2.g[u] # d2.rhs[u]
        THEN UInsert([d2 EXCEPT !.key[u] = calculate_key(d2, u)], u)
        ELSE d2

\* for pred in u.pred: self.update_vertex(self.nodes[pred])
RECURSIVE UpdateEach(_, _, _, _)
UpdateEach(G, goal_id, d, us) ==
    IF us = <<>> THEN d
    ELSE UpdateEach(G, goal_id, update_vertex(G, goal_id, d, Head(us)), Tail(us))

\* _DStarLiteCore.__init__
DStarCore(G, start_id, goal_id, edge_cost_changer) ==
    LET d0 == [g    |-> [n \in G.nodes |-> Inf],
               rhs  |-> [n \in G.nodes |-> IF n = goal_id THEN 0 ELSE Inf],
               key  |-> [n \in G.nodes |-> <<Inf, Inf>>],
               heap |-> <<>>,
               entry_finder |-> EmptyMap,
               km   |-> 0,
               start |-> start_id,
               last |-> start_id,
               edge_scheduler |-> edge_cost_changer,
               changed_edges |-> {},
               updated |-> {},
               changes |-> 0,
               path |-> <<>>,
               path_cost |-> 0,
               expansion_count |-> 0,
               expanded_nodes |-> {},
               phase |-> "compute"]
    IN  UInsert([d0 EXCEPT !.key[goal_id] = calculate_key(d0, goal_id)], goal_id)

\* the while condition of compute_shortest_path (top_key first, which may
\* drop stale entries): [holds, d]
ComputeCondition(d) ==
    LET tk == UTopKey(d)
    IN  [holds |-> KeyLt(tk.key, calculate_key(tk.d, tk.d.start))
                   \/ tk.d.rhs[tk.d.start] # tk.d.g[tk.d.start],
         d     |-> tk.d]

\* the dummy Node a D*-Lite event carries
DummyNode(s, cost, dep) == [RootNode(s) EXCEPT !.path_cost = cost, !.depth = dep]

\* the body of the loop of compute_shortest_path after the callback, for the
\* popped vertex u
ExpandVertex(G, goal_id, d, u) ==
    LET k_old == d.key[u]
        k_new == calculate_key(d, u)
    IN  IF KeyLt(k_old, k_new)
        THEN UInsert([d EXCEPT !.key[u] = k_new], u)
        ELSE IF d.g[u] > d.rhs[u]
        THEN UpdateEach(G, goal_id, [d EXCEPT !.g[u] = d.rhs[u]], DStarPred(G, u))
        ELSE update_vertex(G, goal_id,
                UpdateEach(G, goal_id, [d EXCEPT !.g[u] = Inf], DStarPred(G, u)), u)

\* build_solution_node: the loop from index i on
RECURSIVE BuildSolutionFrom(_, _, _, _)
BuildSolutionFrom(G, full_path, i, current_node) ==
    IF i > Len(full_path) THEN current_node
    ELSE LET edge_data == EdgeData(G, full_path[i - 1], full_path[i])
             cost      == IF edge_data # <<>> THEN edge_data[1] ELSE 0
         IN  BuildSolutionFrom(G, full_path, i + 1,
                ChildNode(current_node, [target_node |-> full_path[i], cost |-> cost]))

build_solution_node(G, full_path) ==
    IF full_path = <<>> THEN <<>>
    ELSE <<BuildSolutionFrom(G, full_path, 2, RootNode(full_path[1]))>>

\* a move to the first successor the goal can be reached through, not the best
RECURSIVE BestMoveFirst(_, _, _, _, _)
BestMoveFirst(G, d, succs, best, best_val) ==
    IF succs = <<>> THEN best
    ELSE IF Plus(DStarCost(G, d.start, Head(succs)), d.g[Head(succs)]) < Inf
    THEN Head(succs)
    ELSE BestMoveFirst(G, d, Tail(succs), best, best_val)

\* _make_move: the vertex moved to, 0 when best is None
RECURSIVE BestMove(_, _, _, _, _)
BestMove(G, d, succs, best, best_val) ==
    IF succs = <<>> THEN best
    ELSE LET cost_val == Plus(DStarCost(G, d.start, Head(succs)), d.g[Head(succs)])
         IN  IF cost_val < best_val
             THEN BestMove(G, d, Tail(succs), Head(succs), cost_val)
             ELSE BestMove(G, d, Tail(succs), best, best_val)

\* DStarLiteSearch.find_solution up to dstar.main()
DStarStart ==
    /\ pc = "idle" /\ alg = "dstar_lite"
    /\ dstar' = DStarCore(graph, start, goal, EdgeCostChanger(0, Inf, 2, 10))
    /\ pc' = "running"
    /\ UNCHANGED <<inputs, alg, heuristic, frontier, bfrontier, reached, breached,
                   nodes_of, C_best, meeting, closed, number_of_nodes,
                   expanded_node_count, popped, trace, result, run, ucs_result,
                   observed, apivars>>

\* compute_shortest_path: one iteration of the while loop
DStarComputeStep ==
    /\ pc = "running" /\ alg \in {"dstar_lite", "dstar_core"}
    /\ dstar.phase = "compute"
    /\ ComputeCondition(dstar).holds
    /\ LET p == UPop(ComputeCondition(dstar).d)
           u == p.node
           d == [p.d EXCEPT !.expansion_count = @ + 1,
                            !.expanded_nodes = @ \cup {u}]
       IN  IF u = 0
           THEN /\ dstar' = [p.d EXCEPT !.phase = "move",
                                         !.path = IF @ = <<>> THEN <<p.d.start>> ELSE @]
                /\ UNCHANGED trace
           ELSE /\ trace' =
                      IF d.expansion_count % callback_throttle_interval = 0
                      THEN Emit(trace, Event("node_expanded", DummyNode(u, d.g[u], 0),
                                   [i \in 1..MinOf(Len(d.heap), 100) |-> d.heap[i].id],
                                   d.expanded_nodes, <<>>))
                      ELSE trace
                /\ dstar' = ExpandVertex(graph, goal, d, u)
    /\ UNCHANGED <<inputs, alg, heuristic, pc, frontier, bfrontier, reached, breached,
                   nodes_of, C_best, meeting, closed, number_of_nodes,
                   expanded_node_count, popped, result, run, ucs_result,
                   observed, apivars>>

\* compute_shortest_path returns: main starts the path at the start node
\* after the first call, and goes on with its loop after a later one
DStarComputeReturn ==
    /\ pc = "running" /\ alg \in {"dstar_lite", "dstar_core"}
    /\ dstar.phase = "compute"
    /\ ~ComputeCondition(dstar).holds
    /\ LET d == ComputeCondition(dstar).d
       IN  dstar' = [d EXCEPT !.phase = "move",
                              !.path = IF @ = <<>> THEN <<d.start>> ELSE @]
    /\ UNCHANGED <<inputs, alg, heuristic, pc, frontier, bfrontier, reached, breached,
                   nodes_of, C_best, meeting, closed, number_of_nodes,
                   expanded_node_count, popped, trace, result, run, ucs_result,
                   observed, apivars>>

\* main, the loop over changed_edges: update_vertex on the second vertex of
\* every changed edge (list(set) yields the edges in no particular order;
\* update_vertex touches the vertex it is given only, so the order is
\* immaterial)
UpdateChanged(G, goal_id, d, changed_edges) ==
    UpdateEach(G, goal_id, d, SetOrder({e[2] : e \in changed_edges}))

\* main: one iteration of the while loop: the move, then the edge scheduler
\* and, when it reports changed edges, the updates they lead to.  Without an
\* edge changer that acts, a move to a vertex the path already holds repeats
\* for ever: the values the moves are chosen by no longer change.
DStarMove ==
    /\ pc = "running" /\ alg \in {"dstar_lite", "dstar_core"}
    /\ dstar.phase = "move"
    /\ dstar.start # goal
    /\ Len(dstar.path) <= 2 * Cardinality(graph.nodes)
    /\ IF dstar.g[dstar.start] = Inf
       THEN /\ result' = <<>>
            /\ expanded_node_count' =
                  IF alg = "dstar_lite" THEN dstar.expansion_count
                  ELSE expanded_node_count
            /\ pc' = "done"
            /\ UNCHANGED <<dstar, graph>>
       ELSE LET best  == BestMove(graph, dstar, DStarSucc(graph, dstar.start), 0, Inf)
                next  == IF best = 0 THEN dstar.start ELSE best
                c     == change_state(graph, dstar.edge_scheduler)
                moved == [dstar EXCEPT
                            !.path_cost = IF best = 0 THEN @
                                          ELSE Plus(@, DStarCost(graph, dstar.start, best)),
                            !.start = next,
                            !.path = Append(@, next),
                            !.edge_scheduler = c.changer]
                told  == [moved EXCEPT
                            !.km = Plus(@, dstar_h(moved.last, moved.start)),
                            !.last = moved.start,
                            !.changed_edges = c.changed_edges,
                            !.updated = {e[2] : e \in c.changed_edges},
                            !.changes = @ + 1,
                            !.phase = "compute"]
            IN  /\ c.changed_edges = {} \/ dstar.changes < MaxChanges
                /\ graph' = c.graph
                /\ dstar' = IF c.changed_edges = {} THEN moved
                            ELSE UpdateChanged(c.graph, goal, told, c.changed_edges)
                /\ pc' = IF InSeq(next, dstar.path)
                            /\ dstar.edge_scheduler.time_to_block = Inf
                         THEN "diverged" ELSE pc
                /\ UNCHANGED <<result, expanded_node_count>>
    /\ UNCHANGED <<start, goal, callback, alg, heuristic, frontier, bfrontier,
                   reached, breached, nodes_of, C_best, meeting, closed,
                   number_of_nodes, popped, trace, run, ucs_result, observed, apivars>>

\* main after the loop and the rest of find_solution: goal_found, then the
\* node chain build_solution_node makes of the path
DStarFinish ==
    /\ pc = "running" /\ alg = "dstar_lite" /\ dstar.phase = "move"
    /\ dstar.start = goal
    /\ trace' = Emit(trace, Event("goal_found",
                        DummyNode(goal, dstar.path_cost, Len(dstar.path) - 1),
                        <<>>, dstar.expanded_nodes, dstar.path))
    /\ expanded_node_count' = dstar.expansion_count
    /\ result' = build_solution_node(graph, dstar.path)
    /\ pc' = "done"
    /\ UNCHANGED <<inputs, alg, heuristic, frontier, bfrontier, reached, breached,
                   nodes_of, C_best, meeting, closed, number_of_nodes, popped, dstar,
                   run, ucs_result, observed, apivars>>

\* a caller builds an EdgeCostChanger and a _DStarLiteCore with it, and
\* calls main()
DStarCoreStart ==
    /\ pc = "idle" /\ alg = "dstar_core"
    /\ \E node \in graph.nodes, time_to_block \in {1, 2}, radius \in {0, 1},
          factor \in Factors :
          dstar' = DStarCore(graph, start, goal,
                             EdgeCostChanger(node, time_to_block, radius, factor))
    /\ pc' = "running"
    /\ UNCHANGED <<inputs, alg, heuristic, frontier, bfrontier, reached, breached,
                   nodes_of, C_best, meeting, closed, number_of_nodes,
                   expanded_node_count, popped, trace, result, run, ucs_result,
                   observed, apivars>>

\* main after the loop: goal_found, return path, []
DStarCoreReturn ==
    /\ pc = "running" /\ alg = "dstar_core" /\ dstar.phase = "move"
    /\ dstar.start = goal
    /\ trace' = Emit(trace, Event("goal_found",
                        DummyNode(goal, dstar.path_cost, Len(dstar.path) - 1),
                        <<>>, dstar.expanded_nodes, dstar.path))
    /\ result' = <<dstar.path>>
    /\ pc' = "done"
    /\ UNCHANGED <<inputs, alg, heuristic, frontier, bfrontier, reached, breached,
                   nodes_of, C_best, meeting, closed, number_of_nodes,
                   expanded_node_count, popped, dstar, run, ucs_result, observed,
                   apivars>>

(***************************************************************************)
(* The driver: after the reference run, one more algorithm on the inputs.  *)
(***************************************************************************)
NextRun(a) ==
    /\ pc = "done" /\ run = 1
    /\ run' = 2
    /\ ucs_result' = result
    /\ alg' = a
    /\ pc' = "idle"
    /\ frontier' = <<>>
    /\ bfrontier' = <<>>
    /\ reached' = EmptyMap
    /\ breached' = EmptyMap
    /\ nodes_of' = <<EmptyMap, EmptyMap>>
    /\ C_best' = Inf
    /\ meeting' = <<>>
    /\ closed' = {}
    /\ number_of_nodes' = 0
    /\ expanded_node_count' = 0
    /\ popped' = <<>>
    /\ trace' = <<>>
    /\ result' = <<>>
    /\ UNCHANGED <<inputs, heuristic>>
    /\ UNCHANGED <<dstar, observed, apivars>>

\* the driver makes the call it made with an observer once more without one
\* (callback=None), on a fresh instance of the same algorithm
RunUnobserved ==
    /\ pc \in {"done", "raised"} /\ callback /\ observed = <<>>
    /\ observed' = <<[result |-> result, pc |-> pc, heuristic |-> heuristic,
                      number_of_nodes |-> number_of_nodes,
                      expanded_node_count |-> expanded_node_count]>>
    /\ callback' = FALSE
    /\ pc' = "idle"
    /\ frontier' = <<>>
    /\ bfrontier' = <<>>
    /\ reached' = EmptyMap
    /\ breached' = EmptyMap
    /\ nodes_of' = <<EmptyMap, EmptyMap>>
    /\ C_best' = Inf
    /\ meeting' = <<>>
    /\ closed' = {}
    /\ number_of_nodes' = 0
    /\ expanded_node_count' = 0
    /\ popped' = <<>>
    /\ trace' = <<>>
    /\ result' = <<>>
    /\ dstar' = <<>>
    /\ UNCHANGED <<graph, start, goal, alg, heuristic, run, ucs_result, apivars>>

UCSNext == UCSStart \/ UCSStep \/ UCSFail

AStarNext == NextRun("astar") \/ AStarStart \/ AStarStep \/ AStarFail

BidirNext ==
    \/ NextRun("bidirectional")
    \/ BidirStart \/ BidirForward \/ BidirBackward \/ BidirFinish

DFSTreeNext ==
    NextRun("dfs_tree") \/ DFSStart("dfs_tree") \/ DFSTreeStep \/ QueueFail("dfs_tree")

DFSGraphNext ==
    NextRun("dfs_graph") \/ DFSStart("dfs_graph") \/ DFSGraphStep \/ QueueFail("dfs_graph")

BFSTreeNext ==
    NextRun("bfs_tree") \/ BFSStart("bfs_tree") \/ BFSTreeStep \/ QueueFail("bfs_tree")

BFSGraphNext ==
    NextRun("bfs_graph") \/ BFSStart("bfs_graph") \/ BFSGraphStep \/ QueueFail("bfs_graph")

QueueNext == DFSTreeNext \/ DFSGraphNext \/ BFSTreeNext \/ BFSGraphNext

DStarNext ==
    \/ NextRun("dstar_lite")
    \/ DStarStart \/ DStarComputeStep \/ DStarComputeReturn \/ DStarMove \/ DStarFinish

Next ==
    \/ UCSNext
    \/ AStarNext
    \/ BidirNext
    \/ QueueNext

Spec == Init /\ [][Next]_vars

\* the reference run alone
SpecUCS == Init /\ [][UCSNext]_vars

\* the reference run, then A*
SpecAStar == Init /\ [][UCSNext \/ AStarNext]_vars

\* the reference run, then the bidirectional search
SpecBidir == Init /\ [][UCSNext \/ BidirNext]_vars

\* the reference run, then one of the four breadth-first and depth-first searches
SpecQueue == Init /\ [][UCSNext \/ QueueNext]_vars

\* the reference run, then D*-Lite
SpecDStar == Init /\ [][UCSNext \/ DStarNext]_vars

\* every algorithm of search.py and graph_search.py
AllAlgorithms == Algorithms \cup {"dstar_lite"}

\* one call of find_solution of any algorithm with an observer, then the
\* same call without one
InitObserver ==
    /\ graph \in Graphs /\ start \in Nodes /\ goal \in Nodes
    /\ callback = TRUE
    /\ alg \in AllAlgorithms
    /\ heuristic = NoHeuristic
    /\ pc = "idle"
    /\ Fresh
    /\ run = 1
    /\ ucs_result = <<>>
    /\ observed = <<>>
    /\ ApiIdle

SearchStep ==
    \/ UCSStart \/ UCSStep \/ UCSFail
    \/ AStarStart \/ AStarStep \/ AStarFail
    \/ BidirStart \/ BidirForward \/ BidirBackward \/ BidirFinish
    \/ DFSStart("dfs_tree") \/ DFSTreeStep \/ QueueFail("dfs_tree")
    \/ DFSStart("dfs_graph") \/ DFSGraphStep \/ QueueFail("dfs_graph")
    \/ BFSStart("bfs_tree") \/ BFSTreeStep \/ QueueFail("bfs_tree")
    \/ BFSStart("bfs_graph") \/ BFSGraphStep \/ QueueFail("bfs_graph")
    \/ DStarStart \/ DStarComputeStep \/ DStarComputeReturn \/ DStarMove \/ DStarFinish

SpecObserver == InitObserver /\ [][SearchStep \/ RunUnobserved]_vars

(***************************************************************************)
(* What the searches are measured against: shortest distances computed     *)
(* from the edge list itself (Bellman-Ford), not by any of the searches.   *)
(***************************************************************************)
MinSet(S) == CHOOSE x \in S : \A y \in S : x <= y

\* the lengths of the edges a -> b
EdgeCosts(G, a, b) == {G.edges[i].w : i \in {j \in 1..Len(G.edges) : Joins(G, G.edges[j], a, b)}}

\* the arcs <<a, b, w>> of G: one per directed edge, two per undirected edge
Arcs(G) ==
    {<<G.edges[i].u, G.edges[i].v, G.edges[i].w>> : i \in 1..Len(G.edges)}
    \cup (IF G.directed THEN {}
          ELSE {<<G.edges[i].v, G.edges[i].u, G.edges[i].w>> : i \in 1..Len(G.edges)})

\* the same arcs turned round
BackArcs(G) == {<<a[2], a[1], a[3]>> : a \in Arcs(G)}

\* one round of relaxation of the distances d (a sequence indexed by node
\* id, Inf: no path yet) along arcs, built node by node; unit = TRUE counts an
\* arc as 1
RECURSIVE RelaxFrom(_, _, _, _, _)
RelaxFrom(arcs, d, unit, n, acc) ==
    IF n > Len(d) THEN acc
    ELSE RelaxFrom(arcs, d, unit, n + 1,
            Append(acc,
                MinSet({d[n]} \cup
                       {d[a[1]] + (IF unit THEN 1 ELSE a[3]) :
                            a \in {x \in arcs : x[2] = n /\ d[x[1]] < Inf}})))

\* cheapest cost from s to each node over paths of at most k arcs
RECURSIVE DistAfter(_, _, _, _, _)
DistAfter(arcs, size, s, k, unit) ==
    IF k = 0 THEN [n \in 1..size |-> IF n = s THEN 0 ELSE Inf]
    ELSE RelaxFrom(arcs, DistAfter(arcs, size, s, k - 1, unit), unit, 1, <<>>)

\* cheapest cost from s to every node, and from every node to t
DistFrom(G, s) ==
    DistAfter(Arcs(G), Cardinality(G.nodes), s, Cardinality(G.nodes) - 1, FALSE)

DistTo(G, t) ==
    DistAfter(BackArcs(G), Cardinality(G.nodes), t, Cardinality(G.nodes) - 1, FALSE)

\* the minimum total length over all paths s -> t, Inf when there is none
MinCost(G, s, t) == DistFrom(G, s)[t]

\* the minimum number of edges over all paths s -> t, Inf when there is none
MinHops(G, s, t) ==
    DistAfter(Arcs(G), Cardinality(G.nodes), s, Cardinality(G.nodes) - 1, TRUE)[t]

Reachable(G, s, t) == MinHops(G, s, t) < Inf

\* the inputs from which the goal cannot be reached, searched by UCS and then
\* by A* or the bidirectional search
InitUnreachable == Init /\ ~Reachable(graph, start, goal)

CostNext == UCSNext \/ AStarNext \/ BidirNext

SpecUnreachable == InitUnreachable /\ [][CostNext]_vars

Returned(a) == alg = a /\ pc = "done"

(***************************************************************************)
(* C1  UCS returns a node of minimum total path cost whenever the goal is  *)
(* reachable from the start (parallel edges are separate actions).         *)
(***************************************************************************)
C1_UCSOptimal ==
    (Returned("ucs") /\ Reachable(graph, start, goal))
        => /\ result # <<>>
           /\ result[1].state = goal
           /\ result[1].path_cost = MinCost(graph, start, goal)

\* UCS returned a two-edge path although a direct, costlier edge start -> goal
\* exists, and a stale node was left behind in the frontier
C1_Witness ==
    /\ Returned("ucs") /\ result # <<>>
    /\ result[1].depth = 2
    /\ \E w \in EdgeCosts(graph, start, goal) : w > result[1].path_cost
    /\ \E i \in 1..Len(frontier) : IsStale(frontier[i], reached)

(***************************************************************************)
(* C2  A* with a non-negative admissible heuristic, consistent or not,     *)
(* returns a node of minimum total path cost whenever the goal is          *)
(* reachable.                                                              *)
(***************************************************************************)
Admissible(G, hf, t) == \E d \in {DistTo(G, t)} : \A n \in G.nodes : hf[n] <= d[n]

Consistent(G, hf) == \A a \in Arcs(G) : hf[a[1]] <= a[3] + hf[a[2]]

C2_AStarOptimal ==
    (Returned("astar") /\ Admissible(graph, heuristic, goal)
                       /\ Reachable(graph, start, goal))
        => /\ result # <<>>
           /\ result[1].state = goal
           /\ result[1].path_cost = MinCost(graph, start, goal)

\* A* returned an optimal path under an admissible heuristic that is not
\* consistent, after expanding some state twice
C2_Witness ==
    /\ Returned("astar") /\ result # <<>>
    /\ Admissible(graph, heuristic, goal)
    /\ ~Consistent(graph, heuristic)
    /\ \E i, j \in 1..Len(popped) : i < j /\ popped[i].state = popped[j].state

\* the search of algorithm a is over: it returned, it raised, or it is known
\* never to return
Ended(a) == alg = a /\ pc \in {"done", "raised", "diverged"}

\* C3: for every graph with non-negative lengths and every start/goal pair,
\* the bidirectional search returns null exactly when UCS on the same inputs
\* does, and otherwise a solution with the path_cost UCS returned.
C3_BidirEqualsUCS ==
    Ended("bidirectional")
        => /\ pc = "done"
           /\ (result = <<>>) <=> (ucs_result = <<>>)
           /\ result # <<>> => result[1].path_cost = ucs_result[1].path_cost

\* the scenario graph G1 (A = 1, B = 2, C = 3), searched from A to C by A* with
\* the built-in heuristic
IsG1 ==
    /\ ~graph.directed
    /\ graph.nodes = {1, 2, 3}
    /\ Len(graph.edges) = 3
    /\ Range(graph.edges) = {[u |-> 1, v |-> 2, w |-> 1], [u |-> 2, v |-> 3, w |-> 1],
                             [u |-> 1, v |-> 3, w |-> 3]}
    /\ start = 1 /\ goal = 3
    /\ alg = "astar"
    /\ heuristic \in {build_euclidean_heuristic(graph, conv, goal) : conv \in {"latlon", "xy"}}

\* C4 as the scenario states it: on G1, A* from A to C with the haversine
\* heuristic returns the path [A, B, C] with path_cost 2.
C4_G1PathViaB ==
    (Ended("astar") /\ IsG1)
        => /\ result # <<>>
           /\ extract_node_id_path(result[1]) = <<1, 2, 3>>
           /\ result[1].path_cost = 2

\* C4, amended: on G1, A* from A to C with the haversine heuristic (metres,
\* far above the edge lengths 1 and 3) returns the direct path [A, C] with
\* path_cost 3.
C4_G1PathDirect ==
    (Ended("astar") /\ IsG1)
        => /\ pc = "done"
           /\ result # <<>>
           /\ extract_node_id_path(result[1]) = <<1, 3>>
           /\ result[1].path_cost = 3

C4_Witness ==
    /\ Returned("astar") /\ IsG1 /\ result # <<>>
    /\ heuristic[2] > MinCost(graph, 2, goal)
    /\ \E i \in 1..Len(frontier) : frontier[i].state = 2

\* C5: bfs_tree and bfs_graph each return, whenever the goal is reachable, a
\* node whose depth is the minimum number of edges of a start-to-goal path; on
\* a graph whose lengths all equal a constant c that depth is UCS's path_cost
\* divided by c.
C5_BFSFewestEdges ==
    ((Ended("bfs_tree") \/ Ended("bfs_graph")) /\ Reachable(graph, start, goal))
        => /\ pc = "done"
           /\ result # <<>>
           /\ result[1].state = goal
           /\ result[1].depth = Len(extract_node_id_path(result[1])) - 1
           /\ result[1].depth = MinHops(graph, start, goal)
           /\ \A c \in Weights \ {0} :
                (\A i \in 1..Len(graph.edges) : graph.edges[i].w = c)
                    => /\ ucs_result # <<>>
                       /\ result[1].depth * c = ucs_result[1].path_cost

C5_Witness ==
    /\ Returned("bfs_tree") \/ Returned("bfs_graph")
    /\ result # <<>> /\ result[1].depth = 2
    /\ Len(popped) >= 3
    /\ graph.edges # <<>>
    /\ \A i \in 1..Len(graph.edges) : graph.edges[i].w = 1
    /\ ucs_result # <<>> /\ ucs_result[1].path_cost = 2

\* C6: on every finite graph in which the goal is reachable from the start,
\* bfs_tree, bfs_graph, dfs_tree and dfs_graph each terminate and return a
\* non-null solution whose state is the goal.
C6_QueueSearchesComplete ==
    (/\ Ended("bfs_tree") \/ Ended("bfs_graph") \/ Ended("dfs_tree") \/ Ended("dfs_graph")
     /\ Reachable(graph, start, goal))
        => /\ pc = "done"
           /\ result # <<>>
           /\ result[1].state = goal

\* some event of the trace is a goal_found event
HasGoalFound(tr) == \E i \in 1..Len(tr) : tr[i].event = "goal_found"

\* the sum over the nodes of the best known cost g in a reached map
RECURSIVE SumGFrom(_, _)
SumGFrom(m, n) ==
    IF n > Cardinality(graph.nodes) THEN 0 ELSE GetG(m, n) + SumGFrom(m, n + 1)

\* the searches left to finish, and within one the steps left to take
PhaseRank ==
    (IF run = 1 THEN 3 ELSE 0)
    + (IF pc = "idle" THEN 2 ELSE IF pc = "running" THEN 1 ELSE 0)

\* A measure that every step of UCS, A* and the bidirectional search lowers:
\* a removal shortens a frontier by one, and every node added lowers the best
\* known cost of its state by at least one unit of the (integer) lengths, or
\* takes it from math.inf to a finite value.
Variant ==
    PhaseRank * 100000000
    + Len(frontier) + Len(bfrontier)
    + 2 * (SumGFrom(reached, 1) + SumGFrom(breached, 1))

\* C7: when the goal is not reachable from the start, UCS, A* and the
\* bidirectional search each terminate with their frontiers empty and return
\* null, and their trace holds no goal_found event.  Termination: every step
\* lowers the natural number Variant, no search raises, and the backward
\* branch of the bidirectional loop never removes from an empty heap.
C7_UnreachableNull ==
    /\ [](/\ ~HasGoalFound(trace)
          /\ pc \notin {"raised", "diverged"}
          /\ pc = "done" => (result = <<>> /\ frontier = <<>> /\ bfrontier = <<>>)
          /\ Variant >= 0
          /\ (pc = "running" /\ alg = "bidirectional" /\ BidirContinues
                /\ ~(GMin(frontier) <= GMin(bfrontier) /\ frontier # <<>>))
                    => bfrontier # <<>>)
    /\ [][Variant' < Variant]_vars

C7_Witness ==
    /\ Returned("astar") \/ Returned("bidirectional")
    /\ ~Reachable(graph, start, goal)
    /\ result = <<>>
    /\ Len(popped) >= 2
    /\ Len(trace) >= 2

\* C8: for every graph, directed or undirected, and every pair of its nodes,
\* check_reachability reports reachable = true if and only if the search
\* (UCS, A*, bidirectional, bfs_graph, dfs_graph) returns a non-null solution.
C8_ReachabilityAgrees ==
    (\E a \in {"ucs", "astar", "bidirectional", "bfs_graph", "dfs_graph"} : Ended(a))
        => (check_reachability(graph, start, goal) <=> (pc = "done" /\ result # <<>>))

\* C9: when A* runs with a consistent heuristic, no state is removed from the
\* frontier as a non-stale node more than once, and the expanded-node counter
\* never exceeds the number of states in best_g.
C9_ConsistentExpandsOnce ==
    (alg = "astar" /\ pc \in {"running", "done"} /\ Consistent(graph, heuristic))
        => /\ \A i, j \in 1..Len(popped) : popped[i].state = popped[j].state => i = j
           /\ expanded_node_count = Len(popped)
           /\ expanded_node_count <= Cardinality(DOMAIN reached)

C9_Witness ==
    /\ Returned("astar") /\ Consistent(graph, heuristic)
    /\ \E n, m \in graph.nodes : heuristic[n] > heuristic[m]
    /\ Len(popped) >= 3
    /\ \E i \in 1..Len(frontier) : IsStale(frontier[i], reached)

\* C10: in the trace of every algorithm, the current_node of a node_expanded
\* event is in the expanded list of every event emitted after it, the final
\* goal_found event included.
C10_ExpandedGrows ==
    \A i, j \in 1..Len(trace) :
        (i < j /\ trace[i].event = "node_expanded")
            => trace[i].current_node \in trace[j].expanded

\* The ids reported as current_node of a node_expanded event among the first
\* k events of a trace.
ExpandedBefore(tr, k) ==
    {tr[i].current_node : i \in {j \in 1..k : tr[j].event = "node_expanded"}}

\* The solution_path of the last event of the trace.
FinalPath == trace[Len(trace)].solution_path

EndsWithGoalFound == trace # <<>> /\ trace[Len(trace)].event = "goal_found"

RECURSIVE ChainCost(_)
ChainCost(n) ==
    IF n.parent = <<>> THEN 0 ELSE n.action[1].cost + ChainCost(n.parent[1])

MaxIdLen == 2
MaxGraphNodes == 2

Chars == {"0", "1", "a", "A", " "}

IntId(n) == [t |-> "int", i |-> n, s |-> <<>>]

StrId(cs) == [t |-> "str", i |-> 0, s |-> cs]

IntIds == {IntId(n) : n \in {0, 1, 10}}

StrIds == {StrId(cs) : cs \in SeqsUpTo(Chars, MaxIdLen)}

DigitChars == <<"0", "1", "2", "3", "4", "5", "6", "7", "8", "9">>

IsDigit(c) == InSeq(c, DigitChars)

DigitValue(c) == CHOOSE d \in 0..9 : DigitChars[d + 1] = c

\* str(n) of a non-negative int: its decimal digits
RECURSIVE DecimalOf(_)
DecimalOf(n) ==
    IF n < 10 THEN <<DigitChars[n + 1]>>
    ELSE Append(DecimalOf(n \div 10), DigitChars[(n % 10) + 1])

\* str(x)
py_str(x) == IF x.t = "int" THEN DecimalOf(x.i) ELSE x.s

\* s.strip(): leading and trailing whitespace removed
RECURSIVE lstrip(_)
lstrip(cs) == IF cs # <<>> /\ Head(cs) = " " THEN lstrip(Tail(cs)) ELSE cs

strip(cs) == Reverse(lstrip(Reverse(lstrip(cs))))

\* the value of a digit string, most significant digit first
RECURSIVE ValueOf(_, _)
ValueOf(cs, acc) ==
    IF cs = <<>> THEN acc ELSE ValueOf(Tail(cs), 10 * acc + DigitValue(Head(cs)))

\* int(x): <<n>>, or <<>> when ValueError is raised
py_int(x) ==
    IF x.t = "int" THEN <<x.i>>
    ELSE LET cs == strip(x.s)
         IN  IF cs # <<>> /\ \A k \in 1..Len(cs) : IsDigit(cs[k])
             THEN <<ValueOf(cs, 0)>>
             ELSE <<>>

\* s.lower()
lower(cs) == [k \in 1..Len(cs) |-> IF cs[k] = "A" THEN "a" ELSE cs[k]]

\* the first node of the list whose lowered string form is low, or None
RECURSIVE FirstLowerMatch(_, _)
FirstLowerMatch(nodes, low) ==
    IF nodes = <<>> THEN <<>>
    ELSE IF lower(py_str(Head(nodes))) = low THEN <<Head(nodes)>>
    ELSE FirstLowerMatch(Tail(nodes), low)

\* find_node on the node list of the graph: <<node>> or <<>> (None)
find_node(nodes, x) ==
    IF InSeq(x, nodes) THEN <<x>>
    ELSE LET node_int == py_int(x)
         IN  IF node_int # <<>> /\ InSeq(IntId(node_int[1]), nodes)
             THEN <<IntId(node_int[1])>>
             ELSE FirstLowerMatch(nodes, lower(py_str(x)))

NodeIds == IntIds \cup StrIds

\* the node lists of the graphs: distinct ids, in insertion order
NodeLists ==
    {ns \in SeqsUpTo(NodeIds, MaxGraphNodes) :
        ns # <<>> /\ \A a, b \in 1..Len(ns) : ns[a] = ns[b] => a = b}

\* the search kernel at rest while the HTTP layer is exercised on its own
KernelIdle ==
    /\ graph = [nodes |-> {1}, directed |-> FALSE, edges |-> <<>>]
    /\ start = 1 /\ goal = 1
    /\ callback = TRUE
    /\ alg = "ucs"
    /\ heuristic = NoHeuristic
    /\ pc = "idle"
    /\ Fresh
    /\ run = 1
    /\ ucs_result = <<>>
    /\ observed = <<>>

InitFindNode ==
    /\ KernelIdle
    /\ graph_nodes \in NodeLists
    /\ node_str \in NodeIds
    /\ lookups = <<>>
    /\ NoSessions

\* node = find_node(graph_id, node_str)
FindNode ==
    /\ lookups = <<>>
    /\ lookups' = <<find_node(graph_nodes, node_str)>>
    /\ UNCHANGED <<kernelvars, registries, graph_nodes, node_str, sessionvars>>

\* the node found is looked up again by its string form, as a client that
\* was handed str(node) does
FindNodeOfStr ==
    /\ Len(lookups) = 1 /\ lookups[1] # <<>>
    /\ lookups' = Append(lookups, find_node(graph_nodes, StrId(py_str(lookups[1][1]))))
    /\ UNCHANGED <<kernelvars, registries, graph_nodes, node_str, sessionvars>>

FindNodeNext == FindNode \/ FindNodeOfStr

SpecFindNode == InitFindNode /\ [][FindNodeNext]_vars

\* C13: for every graph (whose node ids may be integers, strings, or a mix
\* of both) and every input x for which find_node(g, x) returns a node n,
\* find_node(g, str(n)) returns the same node n.
C13_FindNodeStable ==
    Len(lookups) = 2 => lookups[2] = lookups[1]

(***************************************************************************)
(* The HTTP layer: search sessions (api/server.py).  A message is the      *)
(* sequence of the pieces of its text; None is <<>>.                       *)
(***************************************************************************)
MaxSessions == 2
MaxOffset == 3

\* the weight of an edge whose data has no 'length' key
NoLength == -1

TriangleEdges(w23) ==
    <<[u |-> 1, v |-> 2, w |-> 1], [u |-> 2, v |-> 3, w |-> w23], [u |-> 1, v |-> 3, w |-> 3]>>

\* the graphs graph_manager serves under the id "g": the triangle, and the
\* triangle with an edge that carries no length
SessionGraphs ==
    {[nodes |-> {1, 2, 3}, directed |-> FALSE, edges |-> TriangleEdges(w23)] :
        w23 \in {1, NoLength}}

\* graph_manager.get_graph
get_graph(graph_id) == IF graph_id = "g" THEN <<graph>> ELSE <<>>

\* list(graph.nodes()) of a served graph: int node ids
GraphNodeList(G) == [k \in 1..Cardinality(G.nodes) |-> IntId(NodeOrder(G)[k])]

\* algorithm_registry.get: the metadata of a registered algorithm
algorithm_registry_get(name) ==
    IF name \in DOMAIN registries.algorithms
    THEN <<registries.algorithms[name]>>
    ELSE <<>>

\* heuristic_registry.build_heuristic: [ok, heuristic, error]
build_heuristic(name, G, goal_node_id) ==
    IF name \in DOMAIN registries.heuristics
    THEN [ok |-> TRUE, heuristic |-> build_euclidean_heuristic(G, "latlon", goal_node_id),
          error |-> <<>>]
    ELSE [ok |-> FALSE, heuristic |-> NoHeuristic,
          error |-> <<"Heuristic '", name, "' not found in registry">>]

required_fields == <<"graph_id", "algorithm", "start_node", "goal_node">>

AllFields == Range(required_fields)

\* a JSON body posted to /api/search/start: `present` holds its keys,
\* heuristic "" stands for an absent or empty heuristic
Request(present, g, a, h, sn, gn) ==
    [present |-> present, graph_id |-> g, algorithm |-> a, heuristic |-> h,
     start_node |-> StrId(sn), goal_node |-> StrId(gn)]

\* the bodies posted: every pairing of a served algorithm with a heuristic
\* name on the nodes "1" and "3" of graph "g", and the bodies that differ
\* from the plain UCS request in one field or lack one field
Requests ==
    {Request(AllFields, "g", a, h, <<"1">>, <<"3">>) :
        a \in {"ucs", "astar"}, h \in {"", "euclidean", "nope"}}
    \cup {Request(AllFields, "nope", "ucs", "", <<"1">>, <<"3">>),
          Request(AllFields, "g", "nope", "", <<"1">>, <<"3">>),
          Request(AllFields, "g", "ucs", "", <<"a">>, <<"3">>),
          Request(AllFields, "g", "ucs", "", <<"1">>, <<"a">>)}
    \cup {Request(AllFields \ {f}, "g", "ucs", "", <<"1">>, <<"3">>) : f \in AllFields}

\* the bodies the session specifications post: plain UCS, A* with the
\* built-in heuristic, with an unknown one and without one
SessionRequests ==
    {Request(AllFields, "g", "ucs", "", <<"1">>, <<"3">>)}
    \cup {Request(AllFields, "g", "astar", h, <<"1">>, <<"3">>) :
            h \in {"", "euclidean", "nope"}}

ErrorResponse(code, message) ==
    [code |-> code, success |-> FALSE, error |-> message, session_id |-> 0]

\* the first required field the body lacks, or <<>>
RECURSIVE FirstMissing(_, _)
FirstMissing(fields, present) ==
    IF fields = <<>> THEN <<>>
    ELSE IF Head(fields) \notin present THEN <<Head(fields)>>
    ELSE FirstMissing(Tail(fields), present)

\* start_search up to the creation of the session: the error response, or
\* the arguments of the session and of its thread
start_search(data) ==
    LET missing       == FirstMissing(required_fields, data.present)
        G             == get_graph(data.graph_id)
        start_node_id == find_node(GraphNodeList(G[1]), data.start_node)
        goal_node_id  == find_node(GraphNodeList(G[1]), data.goal_node)
        algo_meta     == algorithm_registry_get(data.algorithm)
    IN  IF missing # <<>>
        THEN [ok |-> FALSE,
              resp |-> ErrorResponse(400, <<"Missing required field: ", missing[1]>>)]
        ELSE IF G = <<>>
        THEN [ok |-> FALSE,
              resp |-> ErrorResponse(404, <<"Graph ", data.graph_id, " not found">>)]
        ELSE IF start_node_id = <<>>
        THEN [ok |-> FALSE,
              resp |-> ErrorResponse(404, <<"Start node ">> \o data.start_node.s
                                            \o <<" not found in graph">>)]
        ELSE IF goal_node_id = <<>>
        THEN [ok |-> FALSE,
              resp |-> ErrorResponse(404, <<"Goal node ">> \o data.goal_node.s
                                            \o <<" not found in graph">>)]
        ELSE IF algo_meta = <<>>
        THEN [ok |-> FALSE,
              resp |-> ErrorResponse(404, <<"Algorithm ", data.algorithm, " not found">>)]
        ELSE IF algo_meta[1].requires_heuristic /\ data.heuristic = ""
        THEN [ok |-> FALSE,
              resp |-> ErrorResponse(400, <<"Algorithm ", data.algorithm,
                                            " requires a heuristic">>)]
        ELSE [ok |-> TRUE,
              algo_meta |-> algo_meta[1],
              heuristic_name |-> data.heuristic,
              start_node_id |-> start_node_id[1].i,
              goal_node_id |-> goal_node_id[1].i]

\* the session dictionary start_search stores
NewSession(data, r) ==
    [status |-> "running", steps |-> <<>>, completed |-> FALSE, error |-> <<>>,
     solution_found |-> <<>>, solution_path |-> <<>>, solution_cost |-> <<>>,
     graph_id |-> data.graph_id, algorithm |-> data.algorithm,
     start_node |-> DecimalOf(r.start_node_id), goal_node |-> DecimalOf(r.goal_node_id)]

\* Thread(target=run_search, args=...): the thread before it has run
NewWorker(r) ==
    [wpc |-> "started", algo_meta |-> r.algo_meta, heuristic_name |-> r.heuristic_name,
     start_node_id |-> r.start_node_id, goal_node_id |-> r.goal_node_id,
     instance |-> 0, heuristic |-> NoHeuristic, reached |-> EmptyMap,
     solution |-> <<>>, exception |-> <<>>, emitted |-> <<>>]

\* POST /api/search/start with one of the bodies of posted
StartSearch(posted) ==
    \E data \in posted :
        LET r == start_search(data)
        IN  IF r.ok
            THEN /\ Len(search_sessions) < MaxSessions
                 /\ search_sessions' = Append(search_sessions, NewSession(data, r))
                 /\ workers' = Append(workers, NewWorker(r))
                 /\ cancel_log' = Append(cancel_log, -1)
                 /\ response' = <<[code |-> 200, success |-> TRUE, error |-> <<>>,
                                   session_id |-> Len(search_sessions) + 1]>>
                 /\ request' = <<data>>
                 /\ UNCHANGED <<kernelvars, registries, lookupvars, instances, consumer>>
            ELSE /\ response' = <<r.resp>>
                 /\ request' = <<data>>
                 /\ UNCHANGED <<kernelvars, registries, lookupvars, search_sessions, workers,
                                instances, cancel_log, consumer>>

\* where CPython may place an object: str(node) of a Node, which defines no
\* __str__, is "<search.Node object at 0x...>"
Addresses == {"0x1", "0x2"}

\* an instance made whatever the name
create_instance_unchecked(insts, name) ==
    [ok |-> TRUE, error |-> <<>>,
     instances |-> Append(insts, [frontier |-> <<>>, n |-> 0]), id |-> Len(insts) + 1]

\* algorithm_registry.create_instance: metadata.algorithm_class(), a new
\* object with its own frontier, or ValueError; [ok, error, instances, id]
create_instance(insts, name) ==
    IF algorithm_registry_get(name) = <<>>
    THEN [ok |-> FALSE, error |-> <<"Algorithm '", name, "' not found in registry">>,
          instances |-> insts, id |-> 0]
    ELSE [ok |-> TRUE, error |-> <<>>,
          instances |-> Append(insts, [frontier |-> <<>>, n |-> 0]),
          id |-> Len(insts) + 1]

\* run_search.callback: step_data of an event; reprs are the strings
\* str(n) of the Node objects a goal_found event carries as its frontier
StepData(ev, reprs) ==
    [event         |-> ev.event,
     current_node  |-> DecimalOf(ev.current_node),
     frontier      |-> IF ev.event = "goal_found" THEN reprs
                       ELSE [k \in 1..Len(ev.frontier) |-> DecimalOf(ev.frontier[k])],
     expanded      |-> {DecimalOf(x) : x \in ev.expanded},
     path_cost     |-> ev.path_cost,
     depth         |-> ev.depth,
     solution_path |-> [k \in 1..Len(ev.solution_path) |->
                           DecimalOf(ev.solution_path[k])]]

\* the step_data lists a sequence of events may become
RECURSIVE StepDataLists(_)
StepDataLists(evs) ==
    IF evs = <<>> THEN {<<>>}
    ELSE LET ev == Head(evs)
             rs == IF ev.event = "goal_found"
                   THEN [1..Len(ev.frontier) -> Addresses] ELSE {<<>>}
         IN  {<<StepData(ev, r)>> \o rest : r \in rs, rest \in StepDataLists(Tail(evs))}

\* the step data appended to the first session, whichever session emitted it
StepsAppendFirst(sessions, session_id, data) ==
    [sessions EXCEPT ![1].steps = @ \o data]

\* with sessions_lock: search_sessions[session_id]['steps'].append(step_data)
StepsAppend(sessions, session_id, data) ==
    [sessions EXCEPT ![session_id].steps = @ \o data]

\* find_solution of UCSGraphSearch and AStarGraphSearch up to the loop
BestFirstBegin(a, hf, start_id) ==
    [frontier |-> BestFirstAdd(<<>>, RootNode(start_id),
                      IF a = "astar" THEN AStarFunction(hf, RootNode(start_id))
                      ELSE UCSFunction(RootNode(start_id))),
     n        |-> IF a = "astar" THEN 0 ELSE 1,
     reached  |-> (start_id :> 0)]

\* get_applicable_actions raises KeyError('length') on an edge without length
RaisesKeyError(G, node_id) ==
    \E k \in 1..Len(G.edges) :
        /\ G.edges[k].w = NoLength
        /\ node_id \in {G.edges[k].u, G.edges[k].v}

\* one iteration of the while loop of UCSGraphSearch.find_solution or
\* AStarGraphSearch.find_solution, the return None after it included:
\* [frontier, n, reached, events, outcome, solution, exception]
BestFirstStep(a, G, goal_id, hf, fr, n, rch) ==
    LET same == [frontier |-> fr, n |-> n, reached |-> rch, events |-> <<>>,
                 outcome |-> "searching", solution |-> <<>>, exception |-> <<>>]
    IN  IF fr = <<>> THEN [same EXCEPT !.outcome = "returned"]
        ELSE LET rm   == BestFirstRemove(fr)
                 node == rm[1]
                 rest == rm[2]
                 cnt  == IF a = "astar" THEN n + 1 ELSE n
             IN  IF IsStale(node, rch) THEN [same EXCEPT !.frontier = rest]
                 ELSE IF is_goal(goal_id, node.state)
                 THEN [same EXCEPT !.frontier = rest, !.n = cnt,
                          !.events = <<Event("goal_found", node, rest, DOMAIN rch,
                                             extract_node_id_path(node))>>,
                          !.outcome = "returned", !.solution = <<node>>]
                 ELSE LET ev == Event("node_expanded", node, FrontierIds(rest),
                                      DOMAIN rch, <<>>)
                      IN  IF RaisesKeyError(G, node.state)
                          THEN [same EXCEPT !.frontier = rest, !.n = cnt,
                                   !.events = <<ev>>, !.outcome = "raising",
                                   !.exception = <<"'length'">>]
                          ELSE IF a = "astar"
                          THEN LET st == AStarExpand(hf, node,
                                            get_applicable_actions(G, node.state),
                                            [reached |-> rch, frontier |-> rest])
                               IN  [same EXCEPT !.frontier = st.frontier, !.n = cnt,
                                       !.reached = st.reached, !.events = <<ev>>]
                          ELSE LET st == UCSExpand(node,
                                            get_applicable_actions(G, node.state),
                                            [reached |-> rch, frontier |-> rest, n |-> n])
                               IN  [same EXCEPT !.frontier = st.frontier, !.n = st.n,
                                       !.reached = st.reached, !.events = <<ev>>]

\* run_search up to the while loop of find_solution: the instance is made,
\* the heuristic is built when the algorithm requires one
WorkerBegin ==
    \E sid \in DOMAIN workers :
        LET w  == workers[sid]
            ci == create_instance(instances, w.algo_meta.name)
            bh == IF w.algo_meta.requires_heuristic
                  THEN build_heuristic(w.heuristic_name, graph, w.goal_node_id)
                  ELSE [ok |-> TRUE, heuristic |-> NoHeuristic, error |-> <<>>]
            b  == BestFirstBegin(w.algo_meta.name, bh.heuristic, w.start_node_id)
        IN  /\ w.wpc = "started"
            /\ IF bh.ok
               THEN /\ instances' = [ci.instances EXCEPT ![ci.id] =
                                        [frontier |-> b.frontier, n |-> b.n]]
                    /\ workers' = [workers EXCEPT ![sid] =
                                      [w EXCEPT !.wpc = "searching", !.instance = ci.id,
                                                !.heuristic = bh.heuristic,
                                                !.reached = b.reached]]
               ELSE /\ instances' = ci.instances
                    /\ workers' = [workers EXCEPT ![sid] =
                                      [w EXCEPT !.wpc = "raising", !.instance = ci.id,
                                                !.exception = bh.error]]
            /\ UNCHANGED <<kernelvars, registries, lookupvars, request, search_sessions, response,
                           cancel_log, consumer>>

\* one iteration of find_solution's loop in the thread of a session; the
\* callback appends the step data of the events to the session's steps
WorkerStep ==
    \E sid \in DOMAIN workers :
        LET w    == workers[sid]
            inst == instances[w.instance]
            st   == BestFirstStep(w.algo_meta.name, graph, w.goal_node_id, w.heuristic,
                                  inst.frontier, inst.n, w.reached)
        IN  /\ w.wpc = "searching"
            /\ \E data \in StepDataLists(st.events) :
                  search_sessions' = StepsAppend(search_sessions, sid, data)
            /\ instances' = [instances EXCEPT ![w.instance] =
                                [frontier |-> st.frontier, n |-> st.n]]
            /\ workers' = [workers EXCEPT ![sid] =
                              [w EXCEPT !.wpc = st.outcome, !.reached = st.reached,
                                        !.solution = st.solution,
                                        !.exception = st.exception,
                                        !.emitted = @ \o st.events]]
            /\ UNCHANGED <<kernelvars, registries, lookupvars, request, response, cancel_log, consumer>>

\* run_search after find_solution returned: the session is updated
WorkerFinish ==
    \E sid \in DOMAIN workers :
        LET w == workers[sid]
        IN  /\ w.wpc = "returned"
            /\ search_sessions' = [search_sessions EXCEPT ![sid] =
                  [@ EXCEPT !.status = "completed",
                            !.completed = TRUE,
                            !.solution_found = <<w.solution # <<>>>>,
                            !.solution_path =
                                IF w.solution = <<>> THEN @
                                ELSE LET path == extract_node_id_path(w.solution[1])
                                     IN  <<[k \in 1..Len(path) |-> DecimalOf(path[k])]>>,
                            !.solution_cost =
                                IF w.solution = <<>> THEN @
                                ELSE <<w.solution[1].path_cost>>]]
            /\ workers' = [workers EXCEPT ![sid].wpc = "exited"]
            /\ UNCHANGED <<kernelvars, registries, lookupvars, request, instances, response, cancel_log,
                           consumer>>

\* a handler that records no message
FailSessionSilently(session, message) ==
    [session EXCEPT !.status = "error", !.completed = TRUE]

\* the session after the except block: status, error = str(e), completed
FailSession(session, message) ==
    [session EXCEPT !.status = "error", !.error = message, !.completed = TRUE]

\* run_search: except Exception as e
WorkerFail ==
    \E sid \in DOMAIN workers :
        LET w == workers[sid]
        IN  /\ w.wpc = "raising"
            /\ search_sessions' = [search_sessions EXCEPT ![sid] =
                                      FailSession(@, w.exception)]
            /\ workers' = [workers EXCEPT ![sid].wpc = "exited"]
            /\ UNCHANGED <<kernelvars, registries, lookupvars, request, instances, response, cancel_log,
                           consumer>>

SessionNotFound == ErrorResponse(404, <<"Session not found">>)

\* POST /api/search/<session_id>/cancel
CancelSearch ==
    \E sid \in 1..MaxSessions :
        IF sid \notin DOMAIN search_sessions
        THEN /\ response' = <<SessionNotFound>>
             /\ UNCHANGED <<kernelvars, registries, lookupvars, request, search_sessions, workers,
                            instances, cancel_log, consumer>>
        ELSE /\ search_sessions' = [search_sessions EXCEPT ![sid] =
                   [@ EXCEPT !.status = "cancelled", !.completed = TRUE]]
             /\ cancel_log' = [cancel_log EXCEPT ![sid] =
                   IF @ = -1 THEN Len(search_sessions[sid].steps) ELSE @]
             /\ response' = <<[code |-> 200, success |-> TRUE, error |-> <<>>,
                               session_id |-> sid]>>
             /\ UNCHANGED <<kernelvars, registries, lookupvars, request, workers, instances, consumer>>

\* a slice that starts one element late
SliceFromAfter(list, offset) ==
    IF offset + 2 > Len(list) THEN <<>> ELSE SubSeq(list, offset + 2, Len(list))

\* list[offset:] for an offset that is not negative
Slice(list, offset) == SubSeq(list, offset + 1, Len(list))

\* get_search_steps: the response to GET /api/search/<session_id>/steps
get_search_steps(sessions, sid, offset) ==
    IF sid \notin DOMAIN sessions THEN SessionNotFound
    ELSE LET session == sessions[sid]
         IN  [code |-> 200, success |-> TRUE,
              status |-> session.status,
              completed |-> session.completed,
              steps |-> Slice(session.steps, offset),
              total_steps |-> Len(session.steps),
              offset |-> offset,
              solution_found |->
                  IF ~session.completed THEN <<>>
                  ELSE IF session.solution_found = <<>> THEN <<FALSE>>
                  ELSE session.solution_found,
              solution_path |-> IF session.completed THEN session.solution_path ELSE <<>>,
              solution_cost |-> IF session.completed THEN session.solution_cost ELSE <<>>,
              error |-> IF session.completed THEN session.error ELSE <<>>]

\* GET /api/search/<session_id>/steps?offset=k
GetSteps ==
    \E sid \in 1..MaxSessions, offset \in 0..MaxOffset :
        /\ response' = <<get_search_steps(search_sessions, sid, offset)>>
        /\ UNCHANGED <<kernelvars, registries, lookupvars, request, search_sessions, workers, instances,
                       cancel_log, consumer>>

\* a client of session 1 that polls with the total_steps of its previous
\* poll as offset and keeps the steps it receives
ConsumerPoll ==
    /\ 1 \in DOMAIN search_sessions
    /\ LET r == get_search_steps(search_sessions, 1, consumer.offset)
       IN  /\ consumer' = [offset |-> r.total_steps,
                           received |-> consumer.received \o r.steps]
           /\ response' = <<r>>
    /\ UNCHANGED <<kernelvars, registries, lookupvars, request, search_sessions, workers, instances,
                   cancel_log>>

InitSessions ==
    /\ graph \in SessionGraphs
    /\ start = 1 /\ goal = 3
    /\ callback = TRUE
    /\ alg = "ucs"
    /\ heuristic = NoHeuristic
    /\ pc = "idle"
    /\ Fresh
    /\ run = 1
    /\ ucs_result = <<>>
    /\ observed = <<>>
    /\ graph_nodes = <<>>
    /\ node_str = <<>>
    /\ lookups = <<>>
    /\ NoSessions

WorkerNext == WorkerBegin \/ WorkerStep \/ WorkerFinish \/ WorkerFail

\* sessions that are started, run and cancelled
SpecSessions ==
    InitSessions /\ [][StartSearch(SessionRequests) \/ WorkerNext \/ CancelSearch]_vars

\* sessions that are started, run and polled
SpecPolling ==
    InitSessions
        /\ [][StartSearch(SessionRequests) \/ WorkerNext \/ GetSteps \/ ConsumerPoll]_vars

\* every request body, and the sessions the accepted ones start
SpecRequests == InitSessions /\ [][StartSearch(Requests) \/ WorkerNext]_vars

\* C14: after cancel is called on a running session, that session's status is
\* cancelled and stays cancelled in every later state whatever the worker
\* thread does, and the worker's search stops and yields no solution.
C14_CancelledStays ==
    [][\A sid \in DOMAIN search_sessions :
          search_sessions[sid].status = "cancelled"
              => /\ search_sessions'[sid].status = "cancelled"
                 /\ search_sessions'[sid].solution_found # <<TRUE>>
                 /\ workers'[sid].solution = <<>>]_vars

\* C15: after a session is marked cancelled, at most one further trace event
\* is appended to that session's steps buffer.
C15_OneEventAfterCancel ==
    \A sid \in DOMAIN search_sessions :
        cancel_log[sid] # -1 => Len(search_sessions[sid].steps) <= cancel_log[sid] + 1

\* step data d is what the callback makes of event ev (the frontier of a
\* goal_found event is compared by its length only)
IsStepOf(d, ev) ==
    /\ d.event = ev.event
    /\ d.current_node = DecimalOf(ev.current_node)
    /\ d.path_cost = ev.path_cost /\ d.depth = ev.depth
    /\ d.expanded = {DecimalOf(x) : x \in ev.expanded}
    /\ Len(d.frontier) = Len(ev.frontier)
    /\ ev.event # "goal_found"
          => \A k \in 1..Len(ev.frontier) : d.frontier[k] = DecimalOf(ev.frontier[k])
    /\ Len(d.solution_path) = Len(ev.solution_path)
    /\ \A k \in 1..Len(ev.solution_path) :
          d.solution_path[k] = DecimalOf(ev.solution_path[k])

\* C16: with any number of sessions running concurrently and under any
\* interleaving of their worker threads, each session's steps buffer is a
\* prefix of the sequence of events its own algorithm emitted, in order, and
\* contains no other session's events.
C16_StepsAreOwnEvents ==
    \A sid \in DOMAIN search_sessions :
        /\ Len(search_sessions[sid].steps) <= Len(workers[sid].emitted)
        /\ \A k \in 1..Len(search_sessions[sid].steps) :
              IsStepOf(search_sessions[sid].steps[k], workers[sid].emitted[k])

C16_Witness ==
    /\ Len(search_sessions) = 2
    /\ workers[1].wpc = "searching" /\ workers[2].wpc = "searching"
    /\ workers[1].algo_meta.name # workers[2].algo_meta.name
    /\ Len(search_sessions[1].steps) = 2
    /\ Len(search_sessions[2].steps) = 1
    /\ search_sessions[1].steps[2] # search_sessions[2].steps[1]

\* a is an initial part of b
IsPrefix(a, b) == Len(a) <= Len(b) /\ \A k \in 1..Len(a) : a[k] = b[k]

\* the last response is one of get_search_steps for an existing session
IsStepsResponse(r) == r # <<>> /\ "total_steps" \in DOMAIN r[1]

\* response r is the answer to a poll of session sid at offset r.offset
AnswersPoll(r, sid) ==
    LET steps == search_sessions[sid].steps
    IN  /\ r.total_steps = Len(steps)
        /\ Len(r.steps) = (IF r.offset < Len(steps) THEN Len(steps) - r.offset ELSE 0)
        /\ \A k \in 1..Len(r.steps) : r.steps[k] = steps[r.offset + k]

\* a step keeps every steps buffer as an initial part of the new one, and a
\* new response to a poll answers it for the buffer the poll found
PollStep ==
    /\ \A sid \in DOMAIN search_sessions :
          IsPrefix(search_sessions[sid].steps, search_sessions'[sid].steps)
    /\ (response' # response /\ IsStepsResponse(response'))
          => \E polled \in DOMAIN search_sessions : AnswersPoll(response'[1], polled)

\* C17: a session's steps buffer is append-only; a poll with offset k >= 0
\* returns exactly the events at positions k, k+1, ... of the buffer and
\* total_steps equal to the buffer length, so a consumer that polls repeatedly
\* with the previous total_steps as offset receives every event exactly once
\* and in order.
C17_PollingDeliversOnce ==
    /\ [](1 \in DOMAIN search_sessions
            => /\ consumer.offset <= Len(search_sessions[1].steps)
               /\ consumer.received = SubSeq(search_sessions[1].steps, 1, consumer.offset))
    /\ [][PollStep]_vars

C17_Witness ==
    /\ 1 \in DOMAIN search_sessions
    /\ workers[1].wpc = "exited"
    /\ Len(search_sessions[1].steps) = 3
    /\ consumer.received = search_sessions[1].steps
    /\ IsStepsResponse(response)
    /\ response[1].offset = 2 /\ Len(response[1].steps) = 1

\* the names heuristic_registry holds
RegisteredHeuristics == {"euclidean"}

\* a body that lacks a required field, names an unknown graph, algorithm or
\* heuristic or a node that cannot be resolved, or leaves out the heuristic
\* of an algorithm that requires one
InvalidRequest(d) ==
    \/ d.present # AllFields
    \/ d.graph_id # "g"
    \/ d.algorithm \notin Algorithms
    \/ d.heuristic # "" /\ d.heuristic \notin RegisteredHeuristics
    \/ d.start_node \notin {IntId(n) : n \in graph.nodes} \cup {StrId(DecimalOf(n)) : n \in graph.nodes}
    \/ d.goal_node \notin {IntId(n) : n \in graph.nodes} \cup {StrId(DecimalOf(n)) : n \in graph.nodes}
    \/ d.algorithm = "astar" /\ d.heuristic = ""

\* C18: a start request that lacks a required field, or names an unknown
\* graph, an unknown algorithm, an unknown heuristic, or a start or goal node
\* that cannot be resolved, or omits the heuristic for an algorithm whose
\* metadata has requires_heuristic = true, is answered with an error response
\* carrying a message instead of a session id.
C18_InvalidRequestsRejected ==
    (request # <<>> /\ InvalidRequest(request[1]))
        => /\ response[1].success = FALSE
           /\ response[1].error # <<>>
           /\ response[1].session_id = 0

\* the worker of session sid leaves its except block in this step
FailsNow(sid) ==
    /\ sid \in DOMAIN workers
    /\ workers[sid].wpc = "raising"
    /\ workers'[sid].wpc = "exited"

\* C19: if the kernel raises any exception during a session's search, the
\* session ends with status error, completed = true and a non-empty error
\* message, and no other session is changed.  The step that leaves the except
\* block sets exactly that and touches no other session; afterwards the error
\* message and completed stay, no solution is recorded, and the status is
\* error unless a cancel request has been made for the session.
C19_ExceptionEndsInError ==
    /\ [](\A sid \in DOMAIN workers :
            (workers[sid].wpc = "exited" /\ workers[sid].exception # <<>>)
                => /\ search_sessions[sid].completed
                   /\ search_sessions[sid].error # <<>>
                   /\ \A k \in 1..Len(search_sessions[sid].error) :
                         search_sessions[sid].error[k] # ""
                   /\ search_sessions[sid].solution_found = <<>>
                   /\ search_sessions[sid].status \in {"error", "cancelled"}
                   /\ (cancel_log[sid] = -1 => search_sessions[sid].status = "error"))
    /\ [][\A sid \in 1..MaxSessions :
            FailsNow(sid)
                => /\ search_sessions'[sid].status = "error"
                   /\ search_sessions'[sid].completed
                   /\ search_sessions'[sid].error # <<>>
                   /\ \A other \in DOMAIN search_sessions \ {sid} :
                         search_sessions'[other] = search_sessions[other]]_vars

C19_Witness ==
    /\ Len(search_sessions) = 2
    /\ workers[1].wpc = "exited" /\ workers[1].exception = <<"'length'">>
    /\ search_sessions[1].status = "error"
    /\ Len(search_sessions[1].steps) >= 2
    /\ workers[2].wpc = "searching"
    /\ Len(search_sessions[2].steps) >= 1

\* find_solution run to its end with nothing else running:
\* [events, solution, exception]
RECURSIVE SoloLoop(_, _, _, _, _, _, _, _)
SoloLoop(a, G, goal_id, hf, fr, n, rch, events) ==
    LET st == BestFirstStep(a, G, goal_id, hf, fr, n, rch)
    IN  IF st.outcome = "searching"
        THEN SoloLoop(a, G, goal_id, hf, st.frontier, st.n, st.reached,
                      events \o st.events)
        ELSE [events |-> events \o st.events, solution |-> st.solution,
              exception |-> st.exception]

\* the run of the worker of a session when it is the only session
SoloRun(w) ==
    LET bh == IF w.algo_meta.requires_heuristic
              THEN build_heuristic(w.heuristic_name, graph, w.goal_node_id)
              ELSE [ok |-> TRUE, heuristic |-> NoHeuristic, error |-> <<>>]
        b  == BestFirstBegin(w.algo_meta.name, bh.heuristic, w.start_node_id)
    IN  IF bh.ok
        THEN SoloLoop(w.algo_meta.name, graph, w.goal_node_id, bh.heuristic,
                      b.frontier, b.n, b.reached, <<>>)
        ELSE [events |-> <<>>, solution |-> <<>>, exception |-> bh.error]

\* the session of worker w holds the path and cost of the run alone
SamePathAndCost(session, solo) ==
    IF solo.solution = <<>>
    THEN session.solution_path = <<>> /\ session.solution_cost = <<>>
    ELSE LET path == extract_node_id_path(solo.solution[1])
         IN  /\ session.solution_cost = <<solo.solution[1].path_cost>>
             /\ session.solution_path # <<>>
             /\ Len(session.solution_path[1]) = Len(path)
             /\ \A k \in 1..Len(path) : session.solution_path[1][k] = DecimalOf(path[k])

\* a session whose worker has left run_search and that was not cancelled
Finished(sid) == workers[sid].wpc = "exited" /\ cancel_log[sid] = -1

\* C20: each session gets a fresh algorithm instance, so two concurrent
\* sessions, under any interleaving of their worker threads, each produce
\* the same final path, cost and trace as when that session is run alone.
C20_SameAsRunAlone ==
    \A sid \in DOMAIN search_sessions :
        Finished(sid)
            => LET solo == SoloRun(workers[sid])
               IN  /\ SamePathAndCost(search_sessions[sid], solo)
                   /\ \A tr \in StepDataLists(solo.events) :
                         search_sessions[sid].steps = tr

(***************************************************************************)
(* The observer.                                                           *)
(***************************************************************************)
\* the call has been made with an observer and is made again without one
SameCall == observed # <<>> /\ ~callback

\* C21: a call of find_solution without an observer ends as the same call
\* with an observer ended: it returns None when that returned None and a
\* node with the same path and path cost otherwise, it raises when that
\* raised, and it leaves the same node counters; it emits no event.
C21_SameWithoutObserver ==
    (SameCall /\ pc \in {"done", "raised"}) =>
        /\ pc = observed[1].pc
        /\ result = observed[1].result
        /\ number_of_nodes = observed[1].number_of_nodes
        /\ expanded_node_count = observed[1].expanded_node_count
        /\ trace = <<>>

\* an A* call that skipped a stale node and returned a path of two edges,
\* repeated without an observer
C21_Witness ==
    /\ SameCall /\ alg = "astar" /\ pc = "done"
    /\ result # <<>> /\ result[1].depth = 2
    /\ expanded_node_count >= 3

\* C22: in a run with an observer, goal_found is emitted exactly when
\* find_solution returns a solution: only as the last event of the trace of
\* a call that has returned a node, at most once, with a solution_path from
\* the start node to the goal node; and a call that returned a node has
\* emitted it.
C22_GoalFoundIffSolution ==
    callback =>
        /\ \A i \in 1..Len(trace) :
              trace[i].event = "goal_found" =>
                  /\ i = Len(trace)
                  /\ pc = "done" /\ result # <<>>
                  /\ trace[i].solution_path # <<>>
                  /\ trace[i].solution_path[1] = start
                  /\ trace[i].solution_path[Len(trace[i].solution_path)] = goal
        /\ (pc = "done" /\ result # <<>>) =>
              (trace # <<>> /\ trace[Len(trace)].event = "goal_found")

\* a D*-Lite run that returned a path of two edges after its goal_found
C22_Witness ==
    /\ callback /\ alg = "dstar_lite" /\ pc = "done"
    /\ result # <<>> /\ result[1].depth = 2
    /\ trace # <<>> /\ trace[Len(trace)].event = "goal_found"

(***************************************************************************)
(* BestFirstFrontier on its own: a caller adds nodes and removes them in   *)
(* any order.  The k-th node added has state k; its value is its path cost *)
(* (UCSFunction).  popped holds the nodes remove_node returned.            *)
(***************************************************************************)
\* nodes added to the frontier in one behaviour
MaxAdds == 5

\* the values of the nodes added
FrontierValues == {0, 1}

InitFrontier == KernelIdle /\ ApiIdle

\* BestFirstFrontier.add_node
AddNode ==
    /\ Len(popped) + Len(frontier) < MaxAdds
    /\ \E v \in FrontierValues :
          LET node == [RootNode(Len(popped) + Len(frontier) + 1) EXCEPT !.path_cost = v]
          IN  frontier' = BestFirstAdd(frontier, node, UCSFunction(node))
    /\ UNCHANGED <<inputs, alg, heuristic, pc, bfrontier, reached, breached, nodes_of,
                   C_best, meeting, closed, number_of_nodes, expanded_node_count,
                   popped, trace, result, run, ucs_result, dstar, observed, apivars>>

\* BestFirstFrontier.remove_node
RemoveNode ==
    /\ frontier # <<>>
    /\ popped' = Append(popped, BestFirstRemove(frontier)[1])
    /\ frontier' = BestFirstRemove(frontier)[2]
    /\ UNCHANGED <<inputs, alg, heuristic, pc, bfrontier, reached, breached, nodes_of,
                   C_best, meeting, closed, number_of_nodes, expanded_node_count,
                   trace, result, run, ucs_result, dstar, observed, apivars>>

SpecFrontier == InitFrontier /\ [][AddNode \/ RemoveNode]_vars

\* C23: among nodes of equal value, remove_node returns the one added
\* first: no node that was returned was added after a node of the same
\* value that was returned later or is still queued.
C23_FifoAmongEquals ==
    /\ \A i, j \in 1..Len(popped) :
          (i < j /\ popped[i].value = popped[j].value) =>
              popped[i].state < popped[j].state
    /\ \A i \in 1..Len(popped), j \in 1..Len(frontier) :
          popped[i].value = frontier[j].value =>
              popped[i].state < frontier[j].state

\* C24: the node the bidirectional search returns has the path cost
\* C_best, the best meeting total held when the main loop ended.
C24_ChainCostIsCBest ==
    (alg = "bidirectional" /\ pc = "done" /\ result # <<>>) =>
        result[1].path_cost = C_best

(***************************************************************************)
(* GraphManager.check_reachability as the HTTP layer calls it: by graph id *)
(* and two node identifiers as the client wrote them.                      *)
(***************************************************************************)
\* the node identifiers a client sends: "1", " 2", 3, "4", "a"
NodeArgs ==
    {StrId(<<"1">>), StrId(<<" ", "2">>), IntId(3), StrId(<<"4">>), StrId(<<"a">>)}

\* the dictionary check_reachability returns: 'reachable', and 'error'
\* (<<>> when the key is absent)
reachability_info(graph_id, start_node, goal_node) ==
    IF get_graph(graph_id) = <<>>
    THEN [reachable |-> FALSE, error |-> <<"Graph not found">>]
    ELSE LET G            == get_graph(graph_id)[1]
             actual_start == find_node(GraphNodeList(G), start_node)
             actual_goal  == find_node(GraphNodeList(G), goal_node)
         IN  IF actual_start = <<>>
             THEN [reachable |-> FALSE,
                   error |-> <<"Start node \"">> \o py_str(start_node)
                                 \o <<"\" not found in graph">>]
             ELSE IF actual_goal = <<>>
             THEN [reachable |-> FALSE,
                   error |-> <<"Goal node \"">> \o py_str(goal_node)
                                 \o <<"\" not found in graph">>]
             ELSE IF check_reachability(G, actual_start[1].i, actual_goal[1].i)
             THEN [reachable |-> TRUE, error |-> <<>>]
             ELSE [reachable |-> FALSE,
                   error |-> <<"Nodes are not connected in the graph">>]

InitGraphManager ==
    /\ graph \in Graphs
    /\ start = 1 /\ goal = 1
    /\ callback = TRUE
    /\ alg = "ucs"
    /\ heuristic = NoHeuristic
    /\ pc = "idle"
    /\ Fresh
    /\ run = 1
    /\ ucs_result = <<>>
    /\ observed = <<>>
    /\ ApiIdle

\* one call of graph_manager.check_reachability(graph_id, start_node, goal_node)
CheckReachability ==
    /\ \E graph_id \in {"g", "nope"}, start_node \in NodeArgs, goal_node \in NodeArgs :
          /\ request' = [graph_id |-> graph_id, start_node |-> start_node,
                         goal_node |-> goal_node]
          /\ response' = reachability_info(graph_id, start_node, goal_node)
    /\ UNCHANGED <<kernelvars, registries, lookupvars, search_sessions, workers, instances,
                   cancel_log, consumer>>

SpecReachability == InitGraphManager /\ [][CheckReachability]_vars

\* the node of the graph an identifier names: 0 when it names none
NamedNode(x) ==
    LET n == py_int(x)
    IN  IF n # <<>> /\ n[1] \in graph.nodes THEN n[1] ELSE 0

\* a and b are joined by a chain of edges, whichever way each edge points
SameWeakComponent(G, a, b) ==
    \E p \in SeqsUpTo(G.nodes, Cardinality(G.nodes)) :
        /\ p # <<>> /\ p[1] = a /\ p[Len(p)] = b
        /\ \A k \in 1..(Len(p) - 1) :
              \E i \in 1..Len(G.edges) :
                  {G.edges[i].u, G.edges[i].v} = {p[k], p[k + 1]}

\* C25: when the graph id is known and both identifiers name a node,
\* check_reachability answers reachable = true exactly when the two nodes
\* lie in the same weakly connected component, and reachable = false comes
\* with an error message; when the graph id is unknown or an identifier
\* names no node it answers reachable = false with an error message.
C25_WeakComponent ==
    request # <<>> =>
        IF request.graph_id = "g" /\ NamedNode(request.start_node) # 0
                                  /\ NamedNode(request.goal_node) # 0
        THEN /\ response.reachable <=>
                    SameWeakComponent(graph, NamedNode(request.start_node),
                                      NamedNode(request.goal_node))
             /\ ~response.reachable => response.error # <<>>
        ELSE ~response.reachable /\ response.error # <<>>

\* nodes 1 and 2 of a directed graph whose only edge runs from 2 to 1,
\* reported reachable
C25_Witness ==
    /\ request # <<>> /\ request.graph_id = "g"
    /\ graph.directed /\ graph.edges = <<[u |-> 2, v |-> 1, w |-> 1]>>
    /\ request.start_node = StrId(<<"1">>) /\ request.goal_node = StrId(<<" ", "2">>)
    /\ response.reachable

(***************************************************************************)
(* GraphManager.serialize_graph.                                           *)
(***************************************************************************)
\* graph.edges(keys=True, data=True): node by node in insertion order, then
\* by neighbour, then by key; an undirected edge is yielded once, from the
\* end that comes first (the nodes already walked are skipped as neighbours)
RECURSIVE EdgesFrom(_, _, _, _)
EdgesFrom(G, us, seen, acc) ==
    IF us = <<>> THEN acc
    ELSE LET u    == Head(us)
             acts == SelectSeq(get_applicable_actions(G, u),
                               LAMBDA a : G.directed \/ a.target_node \notin seen)
             new  == [k \in 1..Len(acts) |->
                        [u |-> u, v |-> acts[k].target_node, w |-> acts[k].cost]]
         IN  EdgesFrom(G, Tail(us), seen \cup {u}, acc \o new)

\* an edge key that keeps the direction of the edge
edge_key_directed(u, v) == <<u, v>>

\* edge_key = (min(u, v), max(u, v))
edge_key(u, v) == <<IF u <= v THEN u ELSE v, IF u <= v THEN v ELSE u>>

\* the loop over the edges: one record for the first edge of each edge_key
RECURSIVE SerializeEdges(_, _, _)
SerializeEdges(es, seen_edges, edges) ==
    IF es = <<>> THEN edges
    ELSE LET e == Head(es)
         IN  IF edge_key(e.u, e.v) \notin seen_edges
             THEN SerializeEdges(Tail(es), seen_edges \cup {edge_key(e.u, e.v)},
                     Append(edges, [source |-> py_str(IntId(e.u)),
                                    target |-> py_str(IntId(e.v)),
                                    length |-> e.w]))
             ELSE SerializeEdges(Tail(es), seen_edges, edges)

\* serialize_graph: <<>> (None) or <<the dictionary>>
serialize_graph(graph_id) ==
    IF get_graph(graph_id) = <<>> THEN <<>>
    ELSE LET G == get_graph(graph_id)[1]
         IN  <<[graph_id |-> graph_id,
                nodes |-> [k \in 1..Len(NodeOrder(G)) |->
                             [id  |-> py_str(IntId(NodeOrder(G)[k])),
                              lat |-> NodeLat("latlon", NodeOrder(G)[k]),
                              lon |-> NodeLon("latlon", NodeOrder(G)[k])]],
                edges |-> SerializeEdges(EdgesFrom(G, NodeOrder(G), {}, <<>>), {}, <<>>)]>>

\* one call of graph_manager.serialize_graph(graph_id)
SerializeGraph ==
    /\ \E graph_id \in {"g", "nope"} :
          /\ request' = [graph_id |-> graph_id]
          /\ response' = serialize_graph(graph_id)
    /\ UNCHANGED <<kernelvars, registries, lookupvars, search_sessions, workers, instances,
                   cancel_log, consumer>>

SpecSerialize == InitGraphManager /\ [][SerializeGraph]_vars

\* the decimal digits a node id is written with
IdString(n) == <<DigitChars[n + 1]>>

\* the edge records between the nodes a and b, in either direction
RecordsBetween(dict, a, b) ==
    {i \in 1..Len(dict.edges) :
        \/ dict.edges[i].source = IdString(a) /\ dict.edges[i].target = IdString(b)
        \/ dict.edges[i].source = IdString(b) /\ dict.edges[i].target = IdString(a)}

\* C26: serialize_graph emits exactly one edge record for every unordered
\* pair of nodes joined by at least one edge (parallel edges and both
\* directions of a directed graph included) and none for a pair joined by
\* no edge, and every node appears exactly once, its id written as a string.
C26_OneRecordPerPair ==
    (request # <<>> /\ response # <<>>) =>
        /\ \A a, b \in graph.nodes :
              Cardinality(RecordsBetween(response[1], a, b)) =
                  IF \E i \in 1..Len(graph.edges) :
                         {graph.edges[i].u, graph.edges[i].v} = {a, b}
                  THEN 1 ELSE 0
        /\ \A n \in graph.nodes :
              Cardinality({k \in 1..Len(response[1].nodes) :
                              response[1].nodes[k].id = IdString(n)}) = 1
        /\ Len(response[1].nodes) = Cardinality(graph.nodes)

\* a directed graph with the edges 1 -> 2 and 2 -> 1, serialized with one
\* edge record
C26_Witness ==
    /\ request # <<>> /\ response # <<>>
    /\ graph.directed
    /\ graph.edges = <<[u |-> 1, v |-> 2, w |-> 1], [u |-> 2, v |-> 1, w |-> 3]>>
    /\ Len(response[1].edges) = 1

(***************************************************************************)
(* The registries called on their own.                                     *)
(***************************************************************************)
\* instances made in one behaviour
MaxInstances == 2

\* the names a caller asks for
AlgorithmNames == Algorithms \cup {"dstar_lite", "nope", ""}

HeuristicNames == {"euclidean", "zero", ""}

\* algorithm_registry.create_instance(name)
CreateInstance ==
    /\ Len(instances) < MaxInstances
    /\ \E name \in AlgorithmNames :
          LET ci == create_instance(instances, name)
          IN  /\ request' = [call |-> "create_instance", name |-> name]
              /\ response' = [ok |-> ci.ok, error |-> ci.error]
              /\ instances' = ci.instances
    /\ UNCHANGED <<kernelvars, registries, lookupvars, search_sessions, workers,
                   cancel_log, consumer>>

\* heuristic_registry.build_heuristic(name, graph, goal_node_id)
BuildHeuristic ==
    /\ \E name \in HeuristicNames, goal_node_id \in graph.nodes :
          LET bh == build_heuristic(name, graph, goal_node_id)
          IN  /\ request' = [call |-> "build_heuristic", name |-> name]
              /\ response' = [ok |-> bh.ok, error |-> bh.error]
    /\ UNCHANGED <<kernelvars, registries, lookupvars, search_sessions, workers,
                   instances, cancel_log, consumer>>

SpecRegistry == InitGraphManager /\ [][CreateInstance \/ BuildHeuristic]_vars

\* the names initialize_registries registers
RegisteredAlgorithms ==
    {"ucs", "astar", "bidirectional", "bfs_graph", "bfs_tree", "dfs_graph", "dfs_tree"}

\* C27: create_instance and build_heuristic succeed for a name that was
\* registered and fail with an error for a name that never was, and neither
\* call changes a registry.
C27_UnknownNameIsError ==
    /\ [](request # <<>> =>
            /\ response.ok <=>
                  IF request.call = "create_instance"
                  THEN request.name \in RegisteredAlgorithms
                  ELSE request.name \in RegisteredHeuristics
            /\ ~response.ok => response.error # <<>>)
    /\ [][registries' = registries]_vars

\* an instance made for a registered name, then a call with a name that
\* was never registered refused
C27_Witness ==
    /\ Len(instances) = 1
    /\ request # <<>> /\ request.name = "nope" /\ ~response.ok
    /\ registries = initialize_registries

\* the node_expanded events of a trace
NodeExpandedEvents(tr) == {i \in 1..Len(tr) : tr[i].event = "node_expanded"}

\* C28: an observed run emits one node_expanded event for each node it
\* removes from its frontier and does not skip as stale, and when A*, the
\* bidirectional search or D*-Lite has returned, the number of node_expanded
\* events equals the expanded-node count it reports.
C28_OneEventPerExpansion ==
    callback =>
        /\ (alg # "dstar_lite" /\ pc \in {"running", "done"}) =>
              Cardinality(NodeExpandedEvents(trace)) = Len(popped)
        /\ (alg \in {"astar", "bidirectional", "dstar_lite"} /\ pc = "done") =>
              Cardinality(NodeExpandedEvents(trace)) = expanded_node_count

\* C29: in every trace event, expanded holds only ids of nodes that were
\* expanded (reported by a node_expanded event) before it, and frontier
\* lists the ids of the nodes queued at that moment: for the event a search
\* returns with, the ids of the nodes its frontier then holds.
C29_FrontierAndExpandedExact ==
    /\ \A k \in 1..Len(trace) :
          trace[k].expanded \subseteq ExpandedBefore(trace, k - 1)
    /\ (pc = "done" /\ EndsWithGoalFound) =>
          trace[Len(trace)].frontier = FrontierIds(frontier)

\* the states of the nodes a sequence of nodes holds, in order
StatesOf(ns) == [i \in 1..Len(ns) |-> ns[i].state]

\* no value occurs twice in the sequence
NoRepeat(sq) == \A i, j \in 1..Len(sq) : sq[i] = sq[j] => i = j

\* the states expanded so far by a graph variant: GraphSearch keeps them in
\* expanded_states, BreadthFirstGraphSearch expands every node it removes
ExpandedStates ==
    IF alg = "dfs_graph" THEN closed ELSE Range(StatesOf(popped))

\* C30: in the graph variants of BFS and DFS, at every point of the search
\* the frontier holds at most one node per state and never a node whose
\* state has already been expanded, and each state is expanded at most once.
C30_FrontierOnePerState ==
    (alg \in {"bfs_graph", "dfs_graph"} /\ pc \in {"running", "done"}) =>
        /\ NoRepeat(StatesOf(frontier))
        /\ \A i \in 1..Len(frontier) :
              frontier[i].state \notin ExpandedStates
        /\ NoRepeat(StatesOf(popped))

\* C31: after a tree-variant search (BFS tree or DFS tree) finishes, the
\* counter returned by get_number_of_nodes_in_last_search equals the number
\* of nodes that were removed from the frontier during that search.
C31_CounterCountsRemovals ==
    (alg \in {"bfs_tree", "dfs_tree"} /\ pc = "done") =>
        number_of_nodes = Len(popped)

\* ---------------------------------------------------------------------
\* DStarPriorityQueue on its own: any sequence of insert, remove, pop and
\* top_key calls. dstar holds the queue (heap, entry_finder), the key
\* attribute of every DStarNode, the call made last and what it returned.
MaxCalls == 5

QueueVertices == {1, 2}

\* the keys the callers give the nodes
QueueKeys == {<<0, 0>>, <<1, 0>>, <<1, 1>>, <<Inf, Inf>>}

InitDQueue ==
    /\ graph = [nodes |-> {1}, directed |-> FALSE, edges |-> <<>>]
    /\ start = 1 /\ goal = 1
    /\ callback = TRUE
    /\ alg = "dstar_lite"
    /\ heuristic = NoHeuristic
    /\ pc = "idle"
    /\ frontier = <<>> /\ bfrontier = <<>>
    /\ reached = EmptyMap /\ breached = EmptyMap
    /\ nodes_of = <<EmptyMap, EmptyMap>>
    /\ C_best = Inf /\ meeting = <<>> /\ closed = {}
    /\ number_of_nodes = 0 /\ expanded_node_count = 0
    /\ popped = <<>> /\ trace = <<>> /\ result = <<>>
    /\ run = 1 /\ ucs_result = <<>> /\ observed = <<>>
    /\ dstar = [heap |-> <<>>, entry_finder |-> EmptyMap,
                key |-> [u \in QueueVertices |-> <<Inf, Inf>>],
                op |-> "init", node |-> 0, top |-> <<Inf, Inf>>, calls |-> 0]
    /\ ApiIdle

QueueRest ==
    UNCHANGED <<inputs, alg, heuristic, pc, frontier, bfrontier, reached, breached,
                nodes_of, C_best, meeting, closed, number_of_nodes,
                expanded_node_count, popped, trace, result, run, ucs_result,
                observed, apivars>>

\* the caller sets node.key, then DStarPriorityQueue.insert(node)
QueueInsert ==
    /\ dstar.calls < MaxCalls
    /\ \E u \in QueueVertices, k \in QueueKeys :
          dstar' = [UInsert([dstar EXCEPT !.key[u] = k], u) EXCEPT
                        !.op = "insert", !.calls = @ + 1]
    /\ QueueRest

\* DStarPriorityQueue.remove(node)
QueueRemove ==
    /\ dstar.calls < MaxCalls
    /\ \E u \in QueueVertices :
          dstar' = [(IF u \in DOMAIN dstar.entry_finder
                     THEN URemove(dstar, u) ELSE dstar) EXCEPT
                        !.op = "remove", !.calls = @ + 1]
    /\ QueueRest

\* DStarPriorityQueue.pop()
QueuePop ==
    /\ dstar.calls < MaxCalls
    /\ dstar' = [UPop(dstar).d EXCEPT !.op = "pop", !.node = UPop(dstar).node,
                                       !.calls = @ + 1]
    /\ QueueRest

\* DStarPriorityQueue.top_key()
QueueTopKey ==
    /\ dstar.calls < MaxCalls
    /\ dstar' = [UTopKey(dstar).d EXCEPT !.op = "top_key", !.top = UTopKey(dstar).key,
                                          !.calls = @ + 1]
    /\ QueueRest

SpecDQueue ==
    InitDQueue /\ [][QueueInsert \/ QueueRemove \/ QueuePop \/ QueueTopKey]_vars

\* the vertices in the side-table whose current key is the smallest
LeastLive(d) ==
    {u \in DOMAIN d.entry_finder :
        \A v \in DOMAIN d.entry_finder : ~KeyLt(d.entry_finder[v], d.entry_finder[u])}

\* C32: after any sequence of insert, remove, pop and top_key calls, pop
\* returns a vertex that is in the side-table at the call (inserted, neither
\* removed nor popped since) with the smallest current key among them, or
\* None when there is none, and takes it out of the side-table, so neither a
\* removed vertex nor one insertion twice is returned; top_key returns the
\* key of the vertex pop would return, or (inf, inf) when there is none, and
\* leaves the side-table as it is.
C32_PopLeastCurrent ==
    [][ /\ dstar'.op = "pop" =>
              /\ IF DOMAIN dstar.entry_finder = {} THEN dstar'.node = 0
                 ELSE dstar'.node \in LeastLive(dstar)
              /\ DOMAIN dstar'.entry_finder = DOMAIN dstar.entry_finder \ {dstar'.node}
        /\ dstar'.op = "top_key" =>
              /\ IF DOMAIN dstar.entry_finder = {} THEN dstar'.top = <<Inf, Inf>>
                 ELSE /\ \E u \in LeastLive(dstar) : dstar'.top = dstar.entry_finder[u]
                      /\ dstar'.top = dstar.entry_finder[UPop(dstar).node]
              /\ dstar'.entry_finder = dstar.entry_finder ]_vars

\* the fifth call was a pop that returned vertex 2 and left the heap empty,
\* after vertex 1 had been inserted and had left the side-table again
C32_Witness ==
    /\ dstar.op = "pop" /\ dstar.node = 2
    /\ dstar.calls = 5
    /\ dstar.key = [u \in QueueVertices |-> <<1, 0>>]
    /\ dstar.heap = <<>>
    /\ dstar.entry_finder = EmptyMap

\* ---------------------------------------------------------------------
\* D*-Lite on road graphs: the nodes lie at Coordinates and every edge is at
\* least as long as the great-circle distance between its ends, as the
\* "length" of an OSM street is.
MaxRoads == 3

\* what a road that does not run straight adds to its length
Detour == 80000

RoadRecs(ns) ==
    {e \in {[u |-> a, v |-> b, w |-> dstar_h(a, b) + x] :
                a \in ns, b \in ns, x \in {0, Detour}} : e.u # e.v}

RoadGraphs ==
    {[nodes |-> Nodes4, directed |-> FALSE, edges |-> es] :
        es \in SeqsUpTo({e \in RoadRecs(Nodes4) : e.u < e.v}, MaxRoads)}
    \cup {[nodes |-> Nodes, directed |-> TRUE, edges |-> es] :
        es \in SeqsUpTo(RoadRecs(Nodes), MaxRoads)}

InitRoad ==
    /\ graph \in RoadGraphs /\ goal \in graph.nodes
    /\ start \in (IF graph.directed THEN graph.nodes ELSE {1})
    /\ callback = TRUE
    /\ alg = "ucs"
    /\ heuristic = NoHeuristic
    /\ pc = "idle"
    /\ Fresh
    /\ run = 1
    /\ ucs_result = <<>>
    /\ observed = <<>>
    /\ ApiIdle

\* the reference run, then D*-Lite, on a road graph
SpecRoad == InitRoad /\ [][UCSNext \/ DStarNext]_vars

\* the arcs D*-Lite sees: _cost reads the first of the parallel edges
DStarArcs(G) ==
    {a \in {<<u, v, DStarCost(G, u, v)>> : u \in G.nodes, v \in G.nodes} :
        a[3] < Inf}

\* the cheapest cost from s to t over those arcs, Inf when there is no path
DStarMinCost(G, s, t) ==
    DistAfter(DStarArcs(G), Cardinality(G.nodes), s, Cardinality(G.nodes) - 1, FALSE)[t]

NoParallelEdges(G) ==
    \A u \in G.nodes, v \in G.nodes : Len(EdgeData(G, u, v)) <= 1

PositiveLengths(G) == \A i \in 1..Len(G.edges) : G.edges[i].w > 0

\* _dstar_h never exceeds the cost of an edge and obeys the triangle inequality
DStarConsistent(G) ==
    /\ \A a \in DStarArcs(G) : dstar_h(a[1], a[2]) <= a[3]
    /\ \A a \in G.nodes, b \in G.nodes, c \in G.nodes :
          dstar_h(a, c) <= dstar_h(a, b) + dstar_h(b, c)

\* p leads from s to t along edges of G
IsRoute(G, p, s, t) ==
    /\ p # <<>> /\ p[1] = s /\ p[Len(p)] = t
    /\ \A i \in 1..(Len(p) - 1) : EdgeData(G, p[i], p[i + 1]) # <<>>

\* what a D*-Lite call has done so far: the vertices compute_shortest_path
\* popped and the vertices main put on the path
DStarMeasure ==
    IF dstar = <<>> THEN 0 ELSE dstar.expansion_count + Len(dstar.path)

\* the state part of C33
DStarStaticRight ==
    (alg = "dstar_lite" /\ PositiveLengths(graph) /\ DStarConsistent(graph)) =>
        /\ pc # "diverged"
        /\ pc = "running" =>
              /\ dstar.phase \in {"compute", "move"}
              /\ DStarMeasure <= 2 * Cardinality(graph.nodes)
        /\ pc = "done" =>
              IF Reachable(graph, start, goal)
              THEN /\ result # <<>>
                   /\ IsRoute(graph, extract_node_id_path(result[1]), start, goal)
                   /\ result[1].path_cost = DStarMinCost(graph, start, goal)
                   /\ NoParallelEdges(graph) =>
                          result[1].path_cost = ucs_result[1].path_cost
              ELSE result = <<>> /\ dstar.g[dstar.start] = Inf

\* C33: with no edge-weight changes, on a finite graph with positive edge
\* lengths and a consistent heuristic, DStarLiteSearch.find_solution
\* terminates: it is never caught in a loop, a running call is always inside
\* compute_shortest_path or the loop of main, where a step is always possible,
\* and every step but the last adds a popped vertex or a path vertex to a
\* total that never exceeds twice the number of nodes.  When the goal can be
\* reached it returns a path from start to goal along edges of the graph whose
\* path_cost is the cheapest cost over the lengths _cost reads, which is the
\* path_cost UCS returns when the graph has no parallel edges; when it cannot,
\* start.g is inf and None is returned.
C33_DStarStaticOptimal ==
    /\ []DStarStaticRight
    /\ [][(alg = "dstar_lite" /\ pc = "running"
            /\ PositiveLengths(graph) /\ DStarConsistent(graph)) =>
                (pc' = "done" \/ DStarMeasure' > DStarMeasure)]_vars

\* D*-Lite returned a route of two edges although an edge leads from the
\* start to the goal
C33_Witness ==
    /\ alg = "dstar_lite" /\ pc = "done" /\ result # <<>>
    /\ PositiveLengths(graph) /\ DStarConsistent(graph)
    /\ Len(dstar.path) = 3
    /\ EdgeData(graph, start, goal) # <<>>

\* ---------------------------------------------------------------------
\* EdgeCostChanger on its own: any sequence of change_state calls on a graph.
\* dstar holds the changer and what the last call returned.
MaxTicks == 3

InitChanger ==
    /\ graph \in Graphs
    /\ start = 1 /\ goal = 1
    /\ callback = TRUE
    /\ alg = "dstar_lite"
    /\ heuristic = NoHeuristic
    /\ pc = "idle"
    /\ frontier = <<>> /\ bfrontier = <<>>
    /\ reached = EmptyMap /\ breached = EmptyMap
    /\ nodes_of = <<EmptyMap, EmptyMap>>
    /\ C_best = Inf /\ meeting = <<>> /\ closed = {}
    /\ number_of_nodes = 0 /\ expanded_node_count = 0
    /\ popped = <<>> /\ trace = <<>> /\ result = <<>>
    /\ run = 1 /\ ucs_result = <<>> /\ observed = <<>>
    /\ \E node \in Nodes, time_to_block \in 1..MaxTicks, radius \in {0, 1},
          factor \in Factors :
          dstar = [edge_scheduler |->
                        EdgeCostChanger(node, time_to_block, radius, factor),
                   changed_edges |-> {}]
    /\ ApiIdle

\* EdgeCostChanger.change_state()
ChangeState ==
    /\ dstar.edge_scheduler.t < MaxTicks
    /\ LET c == change_state(graph, dstar.edge_scheduler)
       IN  /\ dstar' = [edge_scheduler |-> c.changer, changed_edges |-> c.changed_edges]
           /\ graph' = c.graph
    /\ UNCHANGED <<start, goal, callback, alg, heuristic, pc, frontier, bfrontier,
                   reached, breached, nodes_of, C_best, meeting, closed,
                   number_of_nodes, expanded_node_count, popped, trace, result, run,
                   ucs_result, observed, apivars>>

SpecChanger == InitChanger /\ [][ChangeState]_vars

\* C36: over any sequence of change_state calls the edge weights are
\* inflated at most once: a call before tick time_to_block returns no changed
\* edge and leaves every weight as it is, and once a call has inflated the
\* weights no later call changes a weight again.
C36_InflatedOnce ==
    [][ /\ dstar'.edge_scheduler.t < dstar.edge_scheduler.time_to_block =>
              (dstar'.changed_edges = {} /\ graph' = graph)
        /\ dstar.edge_scheduler.already_changed => graph' = graph ]_vars

\* ---------------------------------------------------------------------
\* D*-Lite with an edge changer that acts: _DStarLiteCore.main() on a graph
\* of straight roads between the nodes 1, 2, 3, followed until the run ends
\* or the edge scheduler would report changed edges once more than
\* MaxChanges times.
StraightRoads ==
    {[nodes |-> Nodes, directed |-> FALSE, edges |-> es] :
        es \in SeqsUpTo({e \in RoadRecs(Nodes) :
                            e.u < e.v /\ e.w = dstar_h(e.u, e.v)}, MaxRoads)}
    \cup {[nodes |-> Nodes, directed |-> TRUE, edges |-> es] :
        es \in SeqsUpTo({e \in RoadRecs(Nodes) : e.w = dstar_h(e.u, e.v)}, MaxRoads)}

InitDynamic ==
    /\ graph \in StraightRoads /\ start \in Nodes /\ goal \in Nodes
    /\ callback = TRUE
    /\ alg = "dstar_core"
    /\ heuristic = NoHeuristic
    /\ pc = "idle"
    /\ Fresh
    /\ run = 1
    /\ ucs_result = <<>>
    /\ observed = <<>>
    /\ ApiIdle

SpecDynamic ==
    InitDynamic /\ [][DStarCoreStart \/ DStarComputeStep \/ DStarComputeReturn
                         \/ DStarMove \/ DStarCoreReturn]_vars

\* C34: when the edge scheduler has reported changed edges after a move,
\* update_vertex has been called on both ends of every changed edge by the
\* time compute_shortest_path is called again.
C34_BothEndsUpdated ==
    (alg = "dstar_core" /\ dstar # <<>>) =>
        \A e \in dstar.changed_edges :
            e[1] \in dstar.updated /\ e[2] \in dstar.updated

\* C35: after the changed edges have been processed and
\* compute_shortest_path has returned, the agent's vertex is locally
\* consistent (g = rhs) and its g is the cheapest cost from it to the goal
\* under the new edge weights.
C35_ReplannedIsCheapest ==
    (alg = "dstar_core" /\ pc = "running" /\ dstar.phase = "move"
     /\ dstar.changes > 0
     /\ PositiveLengths(graph) /\ DStarConsistent(graph)) =>
        /\ dstar.g[dstar.start] = dstar.rhs[dstar.start]
        /\ dstar.g[dstar.start] = DStarMinCost(graph, dstar.start, goal)

\* the heuristic handed to A* is zero on every state
ZeroHeuristic == \A n \in DOMAIN heuristic : heuristic[n] = 0

\* C37: with a heuristic that is zero on every state, A* returns a solution
\* of the same path_cost as UCS on the same graph, start and goal, and
\* returns None exactly when UCS does.
C37_ZeroHeuristicIsUCS ==
    (Returned("astar") /\ ZeroHeuristic) =>
        /\ (result = <<>>) <=> (ucs_result = <<>>)
        /\ result # <<>> => result[1].path_cost = ucs_result[1].path_cost

\* A* with the zero heuristic returned a path of two edges that is cheaper
\* than the edge from the start to the goal
C37_Witness ==
    /\ Returned("astar") /\ ZeroHeuristic
    /\ DOMAIN heuristic = graph.nodes
    /\ result # <<>> /\ ucs_result # <<>>
    /\ result[1].depth = 2
    /\ EdgeData(graph, start, goal) # <<>>
    /\ result[1].path_cost < EdgeData(graph, start, goal)[1]

\* the parent links of node n spell a path of the graph from the start whose
\* edge lengths add up to n.path_cost
RECURSIVE IsActualPath(_, _)
IsActualPath(G, n) ==
    IF n.parent = <<>> THEN n.state = start /\ n.path_cost = 0
    ELSE /\ InSeq(n.action[1].cost, EdgeData(G, n.parent[1].state, n.state))
         /\ n.path_cost = n.parent[1].path_cost + n.action[1].cost
         /\ IsActualPath(G, n.parent[1])

\* the state part of C38
UCSInvariants ==
    (alg = "ucs" /\ pc \in {"running", "done"}) =>
        /\ \A s \in DOMAIN reached :
              \/ \E i \in 1..Len(popped) :
                    /\ popped[i].state = s /\ popped[i].path_cost = reached[s]
                    /\ IsActualPath(graph, popped[i])
              \/ \E i \in 1..Len(frontier) :
                    /\ frontier[i].state = s /\ frontier[i].path_cost = reached[s]
                    /\ IsActualPath(graph, frontier[i])
        /\ \A i, j \in 1..Len(popped) :
              /\ i < j => popped[i].path_cost <= popped[j].path_cost
              /\ popped[i].state = popped[j].state => i = j

\* C38: during every UCS run on a graph with non-negative edge lengths,
\* each value reached[s] is the cost of an actual path from the start to s
\* and never increases; for every state s in reached either s has been
\* expanded at cost reached[s] or the frontier holds a node for s with
\* path_cost reached[s]; the path_costs of successive non-stale popped nodes
\* are non-decreasing; and no state is expanded twice.
C38_UCSInvariants ==
    /\ []UCSInvariants
    /\ [][alg = "ucs" =>
            \A s \in DOMAIN reached :
                s \in DOMAIN reached' /\ reached'[s] <= reached[s]]_vars

\* UCS lowered the cost of a state it had reached before: the frontier holds
\* a node of that state that is now stale beside the one at the new cost
C38_Witness ==
    /\ alg = "ucs" /\ pc = "running" /\ Len(popped) >= 2
    /\ \E i \in 1..Len(frontier) :
          /\ frontier[i].state \in DOMAIN reached
          /\ frontier[i].path_cost > reached[frontier[i].state]

\* C39: once a session's status is completed or error no later request
\* changes it: a cancel request that arrives after the worker has finished
\* leaves the session's status, solution_found, solution_path and
\* solution_cost as the worker recorded them; and in every state completed
\* is true exactly when status is not running.
C39_TerminalStatusStays ==
    /\ [](\A sid \in DOMAIN search_sessions :
             search_sessions[sid].completed
                 <=> search_sessions[sid].status # "running")
    /\ [][\A sid \in DOMAIN search_sessions :
             search_sessions[sid].status \in {"completed", "error"}
                 => /\ sid \in DOMAIN search_sessions'
                    /\ search_sessions'[sid].status = search_sessions[sid].status
                    /\ search_sessions'[sid].solution_found
                          = search_sessions[sid].solution_found
                    /\ search_sessions'[sid].solution_path
                          = search_sessions[sid].solution_path
                    /\ search_sessions'[sid].solution_cost
                          = search_sessions[sid].solution_cost]_vars
====
